---- MODULE Spec2Model ----
(***************************************************************************)
(* Model of the Telegram channel parser (src/parser): the page fetcher     *)
(* with retries, the post parser with its dedup set, the event extractor   *)
(* with its lazily loaded refinement model, the per-channel coordinator    *)
(* and the fleet runner with its admission semaphore.                      *)
(*                                                                         *)
(* Texts are abstracted to the features the regular expressions observe;   *)
(* confidences are integers in units of 1/300 (0.85 is 255), field         *)
(* confidences in units of 1/100.                                          *)
(***************************************************************************)
EXTENDS Integers, Sequences, FiniteSets, TLC

(* ---------------------------- bounds ----------------------------------- *)
MaxChannels == 4
MaxCalls == 100
MaxRetriesBound == 6
MaxRuns == 3
MaxKeywords == 3
MaxStrLen == 2
MaxResponseLen == 7
MaxHits == 2
MaxDialogues == 3
MaxAdded == 2
MaxManagerCalls == 4

(* ----------------------- program constants ----------------------------- *)
PARSER_MAX_RETRIES == 3
PARSER_RETRY_DELAY == 2
SemaphoreLimit == 3
MaxWait == 30
RefinedConfidence == 255
Cutoff == 1
MinTextLen == 10

USE_LLM == TRUE

NoneR == [kind |-> "none"]

Min(a, b) == IF a < b THEN a ELSE b

RECURSIVE Pow2(_)
Pow2(k) == IF k <= 0 THEN 1 ELSE 2 * Pow2(k - 1)

\* A local variable: v is computed once and Body is evaluated on its value.
With(v, Body(_)) == CHOOSE out \in {Body(x) : x \in {v}} : TRUE

(* ------------------------------ texts ---------------------------------- *)
Categories ==
  <<"education", "career", "competitions", "exhibitions", "culture",
    "volunteering", "student_life">>

NoHits == [c \in 1..7 |-> 0]

\* A text as the extractor sees it: kw = number of event keywords present,
\* hasDate/hasTime/hasLocation = some pattern of the classifier's pattern set
\* matches, dateCls/timeCls/locCls = the pattern class the field extractor
\* returns on, catHits = keyword hits per category, len = cleaned length.
TextPlain ==
  [id |-> "plain", len |-> 40, kw |-> 0, hasDate |-> FALSE, hasTime |-> FALSE,
   hasLocation |-> FALSE, dateCls |-> "none", timeCls |-> "none",
   locCls |-> "none", catHits |-> NoHits]
TextLecture ==
  [id |-> "lecture", len |-> 60, kw |-> 1, hasDate |-> TRUE, hasTime |-> TRUE,
   hasLocation |-> FALSE, dateCls |-> "numeric", timeCls |-> "single",
   locCls |-> "none", catHits |-> [NoHits EXCEPT ![1] = 1]]
TextConcert ==
  [id |-> "concert", len |-> 80, kw |-> 2, hasDate |-> FALSE, hasTime |-> FALSE,
   hasLocation |-> TRUE, dateCls |-> "none", timeCls |-> "none",
   locCls |-> "venue", catHits |-> [NoHits EXCEPT ![5] = 2, ![7] = 2]]
TextShort ==
  [id |-> "short", len |-> 5, kw |-> 1, hasDate |-> TRUE, hasTime |-> FALSE,
   hasLocation |-> FALSE, dateCls |-> "relative", timeCls |-> "none",
   locCls |-> "none", catHits |-> NoHits]

is_event_text_two_elements(text) ==
  LET event_score == text.kw
      elements_found == (IF text.hasDate THEN 1 ELSE 0)
                        + (IF text.hasTime THEN 1 ELSE 0)
                        + (IF text.hasLocation THEN 1 ELSE 0)
  IN  (event_score > 0 /\ elements_found >= 2) \/ event_score >= 2

is_event_text_one_element(text) ==
  LET event_score == text.kw
      elements_found == (IF text.hasDate THEN 1 ELSE 0)
                        + (IF text.hasTime THEN 1 ELSE 0)
                        + (IF text.hasLocation THEN 1 ELSE 0)
  IN  (event_score > 0 /\ elements_found = 1) \/ event_score >= 2

is_event_text(text) ==
  LET event_score == text.kw
      has_keywords == event_score > 0
      elements_found == (IF text.hasDate THEN 1 ELSE 0)
                        + (IF text.hasTime THEN 1 ELSE 0)
                        + (IF text.hasLocation THEN 1 ELSE 0)
  IN  (has_keywords /\ elements_found >= 1) \/ event_score >= 2

extract_date(text) ==
  CASE text.dateCls = "relative" -> [value |-> "date:relative", conf |-> 95]
    [] text.dateCls = "numeric"  -> [value |-> "date:numeric", conf |-> 95]
    [] text.dateCls = "short"    -> [value |-> "date:short", conf |-> 85]
    [] text.dateCls = "named"    -> [value |-> "date:named", conf |-> 90]
    [] OTHER                     -> [value |-> "unspecified", conf |-> 0]

extract_time(text) ==
  CASE text.timeCls = "range"   -> [value |-> "time:range", conf |-> 95]
    [] text.timeCls = "single"  -> [value |-> "time:single", conf |-> 90]
    [] text.timeCls = "daypart" -> [value |-> "time:daypart", conf |-> 70]
    [] OTHER                    -> [value |-> "unspecified", conf |-> 0]

extract_location_polytech_zero(text) ==
  CASE text.locCls = "platform" -> [value |-> "loc:platform", conf |-> 95]
    [] text.locCls = "online"   -> [value |-> "loc:online", conf |-> 90]
    [] text.locCls = "room"     -> [value |-> "loc:room", conf |-> 90]
    [] text.locCls = "venue"    -> [value |-> "loc:venue", conf |-> 85]
    [] text.locCls = "polytech" -> [value |-> "loc:polytech", conf |-> 0]
    [] OTHER                    -> [value |-> "unspecified", conf |-> 0]

extract_location(text) ==
  CASE text.locCls = "platform" -> [value |-> "loc:platform", conf |-> 95]
    [] text.locCls = "online"   -> [value |-> "loc:online", conf |-> 90]
    [] text.locCls = "room"     -> [value |-> "loc:room", conf |-> 90]
    [] text.locCls = "venue"    -> [value |-> "loc:venue", conf |-> 85]
    [] text.locCls = "polytech" -> [value |-> "loc:polytech", conf |-> 70]
    [] OTHER                    -> [value |-> "unspecified", conf |-> 0]

\* A max that lets a later category with the same score replace the best.
RECURSIVE max_key_last_wins(_, _, _)
max_key_last_wins(hits, c, best) ==
  IF c > Len(Categories) THEN best
  ELSE IF hits[c] > 0 /\ (best = 0 \/ hits[c] >= hits[best])
  THEN max_key_last_wins(hits, c + 1, c)
  ELSE max_key_last_wins(hits, c + 1, best)

\* max(scores, key=scores.get): scores holds the categories with a positive
\* score in declaration order, and max goes through them from category c on,
\* replacing the best so far (0: none yet) only by a greater score.
RECURSIVE max_key(_, _, _)
max_key(hits, c, best) ==
  IF c > Len(Categories) THEN best
  ELSE IF hits[c] > 0 /\ (best = 0 \/ hits[c] > hits[best])
  THEN max_key(hits, c + 1, c)
  ELSE max_key(hits, c + 1, best)

extract_category(text) ==
  IF \A c \in 1..Len(Categories) : text.catHits[c] = 0 THEN "student_life"
  ELSE Categories[max_key(text.catHits, 1, 0)]

extract_title(text) == "title:" \o text.id

Description(text) == "text:" \o text.id

\* A constructor that loads the model when refinement is enabled.
ExtractorInit_loads_model(use_llm) ==
  [use_llm |-> use_llm, has_llm |-> use_llm, llm_loaded |-> use_llm,
   llm_error |-> FALSE, loads |-> IF use_llm THEN 1 ELSE 0]

(* ----------------------- refinement model state ------------------------ *)
\* use_llm, llm_loaded, llm_error, has_llm (self._llm is not None) are the
\* extractor's fields; loads counts the invocations of load_model.
ExtractorInit(use_llm) ==
  [use_llm |-> use_llm, has_llm |-> FALSE, llm_loaded |-> FALSE,
   llm_error |-> FALSE, loads |-> 0]

get_llm_retry_after_error(e, loadOK) ==
  IF e.llm_loaded /\ e.has_llm THEN [ext |-> e, llm |-> TRUE]
  ELSE IF loadOK
  THEN [ext |-> [e EXCEPT !.has_llm = TRUE, !.llm_loaded = TRUE,
                          !.loads = @ + 1],
        llm |-> TRUE]
  ELSE [ext |-> [e EXCEPT !.has_llm = TRUE, !.llm_error = TRUE,
                          !.use_llm = FALSE, !.loads = @ + 1],
        llm |-> FALSE]

get_llm_forget_loaded(e, loadOK) ==
  IF e.llm_error THEN [ext |-> e, llm |-> FALSE]
  ELSE IF loadOK
  THEN [ext |-> [e EXCEPT !.has_llm = TRUE, !.loads = @ + 1], llm |-> TRUE]
  ELSE [ext |-> [e EXCEPT !.has_llm = TRUE, !.llm_error = TRUE,
                          !.use_llm = FALSE, !.loads = @ + 1],
        llm |-> FALSE]

get_llm_loaded_before_load(e, loadOK) ==
  IF e.llm_error THEN [ext |-> e, llm |-> FALSE]
  ELSE IF e.llm_loaded /\ e.has_llm THEN [ext |-> e, llm |-> TRUE]
  ELSE IF loadOK
  THEN [ext |-> [e EXCEPT !.has_llm = TRUE, !.llm_loaded = TRUE,
                          !.loads = @ + 1],
        llm |-> TRUE]
  ELSE [ext |-> [e EXCEPT !.has_llm = TRUE, !.llm_loaded = TRUE,
                          !.llm_error = TRUE, !.use_llm = FALSE,
                          !.loads = @ + 1],
        llm |-> FALSE]

\* _get_llm: loadOK is the outcome load_model would have if it were invoked.
get_llm(e, loadOK) ==
  IF e.llm_error THEN [ext |-> e, llm |-> FALSE]
  ELSE IF e.llm_loaded /\ e.has_llm THEN [ext |-> e, llm |-> TRUE]
  ELSE IF ~e.llm_loaded
  THEN IF loadOK
       THEN [ext |-> [e EXCEPT !.has_llm = TRUE, !.llm_loaded = TRUE,
                               !.loads = @ + 1],
             llm |-> TRUE]
       ELSE [ext |-> [e EXCEPT !.has_llm = TRUE, !.llm_error = TRUE,
                               !.use_llm = FALSE, !.loads = @ + 1],
             llm |-> FALSE]
  ELSE [ext |-> e, llm |-> e.has_llm]

LoadState(e) ==
  IF e.llm_error THEN "Failed"
  ELSE IF e.llm_loaded THEN "Loaded" ELSE "Unloaded"

(* --------------------------- model responses --------------------------- *)
\* What generate_response returns: nothing, a text without a {...} match, a
\* matched text json.loads rejects, or a JSON object; a field of the object
\* is "absent", "null" (present, not a string) or a string value.
JsonFull ==
  [kind |-> "json", title |-> "llm:title", date |-> "llm:date",
   time |-> "llm:time", location |-> "llm:location",
   description |-> "llm:description"]
JsonPartial ==
  [kind |-> "json", title |-> "absent", date |-> "llm:date",
   time |-> "absent", location |-> "absent", description |-> "absent"]
JsonNullTitle ==
  [kind |-> "json", title |-> "null", date |-> "llm:date",
   time |-> "llm:time", location |-> "llm:location",
   description |-> "llm:description"]
RespEmpty == [kind |-> "empty"]
RespNoJson == [kind |-> "nojson"]
RespInvalid == [kind |-> "invalid"]

Responses ==
  {RespEmpty, RespNoJson, RespInvalid, JsonFull, JsonPartial, JsonNullTitle}

DictGet(data, key, default) == IF data[key] = "absent" THEN default ELSE data[key]

EventData(title, date, time, location, description, category, url, confidence) ==
  [kind |-> "event", title |-> title, date |-> date, time |-> time,
   location |-> location, description |-> description, category |-> category,
   telegram_url |-> url, confidence |-> confidence]

\* _refine_with_llm: slicing the title of a non-string raises, and every
\* exception inside the try block yields None.
refine_with_llm(e, text, info, loadOK, resp) ==
  LET g == get_llm(e, loadOK)
  IN  IF ~g.llm THEN [ext |-> g.ext, ret |-> NoneR]
      ELSE IF resp.kind # "json" THEN [ext |-> g.ext, ret |-> NoneR]
      ELSE IF DictGet(resp, "title", info.title) = "null"
      THEN [ext |-> g.ext, ret |-> NoneR]
      ELSE [ext |-> g.ext,
            ret |-> EventData(DictGet(resp, "title", info.title),
                              DictGet(resp, "date", info.date),
                              DictGet(resp, "time", info.time),
                              DictGet(resp, "location", info.location),
                              DictGet(resp, "description", Description(text)),
                              info.category, "", RefinedConfidence)]

HeuristicInfo(text) ==
  [title |-> extract_title(text), date |-> extract_date(text).value,
   time |-> extract_time(text).value,
   location |-> extract_location(text).value,
   category |-> extract_category(text)]

HeuristicConfidence_sum(text) ==
  3 * (extract_date(text).conf + extract_time(text).conf
         + extract_location(text).conf)

\* (date_conf + time_conf + location_conf) / 3, capped at 1.0.
HeuristicConfidence(text) ==
  Min(extract_date(text).conf + extract_time(text).conf
        + extract_location(text).conf, 300)

HeuristicEvent(text, url) ==
  LET info == HeuristicInfo(text)
  IN  EventData(info.title, info.date, info.time, info.location,
                Description(text), info.category, url,
                HeuristicConfidence(text))

\* extract_event_info; refined records what the refinement pass did for the
\* text: "skipped" (not called), "null" or "ok".
extract_event_info(e, text, url, loadOK, resp) ==
  IF ~is_event_text(text)
  THEN [ext |-> e, ret |-> NoneR, refined |-> "skipped"]
  ELSE IF e.use_llm
  THEN With(refine_with_llm(e, text, HeuristicInfo(text), loadOK, resp),
            LAMBDA r :
              IF r.ret # NoneR
              THEN [ext |-> r.ext, ret |-> r.ret, refined |-> "ok"]
              ELSE [ext |-> r.ext, ret |-> HeuristicEvent(text, url),
                    refined |-> "null"])
  ELSE [ext |-> e, ret |-> HeuristicEvent(text, url),
        refined |-> IF e.llm_error THEN "null" ELSE "skipped"]

\* The entries of out, a sequence of extract_event_info outcomes, for the
\* texts at the indices idx, the extractor state threaded through the calls.
RECURSIVE ExtractSeq(_, _, _, _, _)
ExtractSeq(e, texts, loadOK, resps, idx) ==
  IF idx = <<>> THEN [ext |-> e, out |-> <<>>]
  ELSE LET i == Head(idx)
       IN  With(extract_event_info(e, texts[i].text, texts[i].url, loadOK,
                                   resps[i]),
                LAMBDA r :
                  With(ExtractSeq(r.ext, texts, loadOK, resps, Tail(idx)),
                       LAMBDA rest :
                         [ext |-> rest.ext, out |-> <<r>> \o rest.out]))

Indices(s) == [i \in 1..Len(s) |-> i]

EventIndices(texts) ==
  SelectSeq(Indices(texts), LAMBDA i : is_event_text(texts[i].text))

\* batch_results[url] after the loop over event_texts: the outcome stored last
\* under that url (k ranges over positions of event_indices).
BatchResultsGet(texts, event_indices, out, url) ==
  LET ks == {k \in 1..Len(event_indices) : texts[event_indices[k]].url = url}
  IN  IF ks = {} THEN NoneR
      ELSE out[CHOOSE k \in ks : \A j \in ks : j <= k].ret

PositionOf(event_indices, i) ==
  CHOOSE k \in 1..Len(event_indices) : event_indices[k] = i

\* process_batch: results is the returned list; refined[i] is what the
\* refinement pass did on text i itself.
process_batch(e, texts, loadOK, resps) ==
  IF ~e.use_llm
  THEN With(ExtractSeq(e, texts, loadOK, resps, Indices(texts)),
            LAMBDA x :
              [ext |-> x.ext,
               results |-> [i \in 1..Len(texts) |-> x.out[i].ret],
               refined |-> [i \in 1..Len(texts) |-> x.out[i].refined]])
  ELSE LET event_indices == EventIndices(texts)
       IN  IF event_indices = <<>>
           THEN [ext |-> e,
                 results |-> [i \in 1..Len(texts) |-> NoneR],
                 refined |-> [i \in 1..Len(texts) |-> "skipped"]]
           ELSE LET g == get_llm(e, loadOK)
                IN  With(ExtractSeq(g.ext, texts, loadOK, resps,
                                    event_indices),
                         LAMBDA x :
                           [ext |-> x.ext,
                            results |->
                              [i \in 1..Len(texts) |->
                                 IF is_event_text(texts[i].text)
                                 THEN BatchResultsGet(texts, event_indices,
                                                      x.out, texts[i].url)
                                 ELSE NoneR],
                            refined |->
                              [i \in 1..Len(texts) |->
                                 IF is_event_text(texts[i].text)
                                 THEN x.out[PositionOf(event_indices,
                                                       i)].refined
                                 ELSE "skipped"]])

(* ------------------------------ parsing -------------------------------- *)
\* A post block of the page: ts = NoTime when the block has no time tag,
\* text = NoText when it has no text div (or an empty one), url = "" when it
\* has no permalink.
NoTime == -1
\* The time tag of a block whose datetime attribute fromisoformat rejects.
BadTime == -2
NoText ==
  [id |-> "", len |-> 0, kw |-> 0, hasDate |-> FALSE, hasTime |-> FALSE,
   hasLocation |-> FALSE, dateCls |-> "none", timeCls |-> "none",
   locCls |-> "none", catHits |-> NoHits]
Block(ts, text, url) == [ts |-> ts, text |-> text, url |-> url]

generate_message_hash_with_url(message) ==
  <<message.text.id, message.datetime, message.channel, message.url>>

\* md5 of "text|datetime|channel", taken as injective on the triple.
generate_message_hash(message) ==
  <<message.text.id, message.datetime, message.channel>>

TelegramMessage(text, ts, url, channel) ==
  [id |-> url, text |-> text, datetime |-> ts, url |-> url,
   channel |-> channel]

RECURSIVE parse_blocks_no_insert(_, _, _, _)
parse_blocks_no_insert(channel, blocks, seen, messages) ==
  IF blocks = <<>> THEN [messages |-> messages, seen |-> seen]
  ELSE LET div == Head(blocks)
           rest == Tail(blocks)
           message == TelegramMessage(div.text, div.ts, div.url, channel)
           h == generate_message_hash(message)
       IN  IF div.ts = NoTime \/ div.ts < Cutoff
              \/ div.text.len < MinTextLen \/ div.url = ""
           THEN parse_blocks_no_insert(channel, rest, seen, messages)
           ELSE IF h \notin seen
           THEN parse_blocks_no_insert(channel, rest, seen,
                                       Append(messages, message))
           ELSE parse_blocks_no_insert(channel, rest, seen, messages)

\* A loop that a block without time tag, text or permalink, too short, too
\* old or raising ends instead of passing on to the next block.
RECURSIVE parse_blocks_stops_at_skipped(_, _, _, _)
parse_blocks_stops_at_skipped(channel, blocks, seen, messages) ==
  IF blocks = <<>> THEN [messages |-> messages, seen |-> seen]
  ELSE LET div == Head(blocks)
           rest == Tail(blocks)
           message == TelegramMessage(div.text, div.ts, div.url, channel)
           h == generate_message_hash(message)
       IN  IF div.ts \in {NoTime, BadTime} \/ div.ts < Cutoff
              \/ div.text.len < MinTextLen \/ div.url = ""
           THEN [messages |-> messages, seen |-> seen]
           ELSE IF h \notin seen
           THEN parse_blocks_stops_at_skipped(channel, rest, seen \cup {h},
                                              Append(messages, message))
           ELSE parse_blocks_stops_at_skipped(channel, rest, seen, messages)

\* The loop over the blocks of the page. fromisoformat raising on the time
\* tag is caught by the except of the loop body, which goes on to the next
\* block.
RECURSIVE parse_blocks(_, _, _, _)
parse_blocks(channel, blocks, seen, messages) ==
  IF blocks = <<>> THEN [messages |-> messages, seen |-> seen]
  ELSE LET div == Head(blocks)
           rest == Tail(blocks)
           message == TelegramMessage(div.text, div.ts, div.url, channel)
           h == generate_message_hash(message)
       IN  IF div.ts = NoTime THEN parse_blocks(channel, rest, seen, messages)
           ELSE IF div.ts = BadTime
           THEN parse_blocks(channel, rest, seen, messages)
           ELSE IF div.ts < Cutoff
           THEN parse_blocks(channel, rest, seen, messages)
           ELSE IF div.text.len = 0 \/ div.text.len < MinTextLen
           THEN parse_blocks(channel, rest, seen, messages)
           ELSE IF div.url = ""
           THEN parse_blocks(channel, rest, seen, messages)
           ELSE IF h \notin seen
           THEN parse_blocks(channel, rest, seen \cup {h},
                             Append(messages, message))
           ELSE parse_blocks(channel, rest, seen, messages)

\* A parse whose insertions into the dedup set are lost when it returns.
parse_channel_loses_insertions(channel, html, seen) ==
  IF html = NoneR THEN [messages |-> <<>>, seen |-> seen]
  ELSE [messages |-> parse_blocks(channel, html.blocks, seen, <<>>).messages,
        seen |-> seen]

\* parse_channel after _fetch_page returned: html is NoneR or the page.
parse_channel(channel, html, seen) ==
  IF html = NoneR THEN [messages |-> <<>>, seen |-> seen]
  ELSE parse_blocks(channel, html.blocks, seen, <<>>)

RECURSIVE InsertByDatetime_before_ties(_, _)
InsertByDatetime_before_ties(m, s) ==
  IF s = <<>> THEN <<m>>
  ELSE IF m.datetime <= Head(s).datetime THEN <<m>> \o s
  ELSE <<Head(s)>> \o InsertByDatetime_before_ties(m, Tail(s))

\* list.sort(key=datetime): ascending and stable.
RECURSIVE InsertByDatetime(_, _)
InsertByDatetime(m, s) ==
  IF s = <<>> THEN <<m>>
  ELSE IF m.datetime < Head(s).datetime THEN <<m>> \o s
  ELSE <<Head(s)>> \o InsertByDatetime(m, Tail(s))

RECURSIVE SortByDatetime(_)
SortByDatetime(s) ==
  IF s = <<>> THEN <<>>
  ELSE InsertByDatetime(s[Len(s)], SortByDatetime(SubSeq(s, 1, Len(s) - 1)))

Stats(total, events, skipped) ==
  [kind |-> "stats", total |-> total, events |-> events, skipped |-> skipped]

\* A loop that counts every post as skipped, whatever its result.
skipped_count_every_post(results) == Len(results)

\* skipped after the loop over zip(messages, batch_results): one for each
\* post whose result is None.
skipped_count(results) ==
  Len(SelectSeq(Indices(results), LAMBDA i : results[i] = NoneR))

\* process_channel_messages up to its call of _save_results: messages is the
\* sorted list, results the list process_batch returned for it.
process_channel_messages(e, messages, channel, loadOK, resps) ==
  IF messages = <<>>
  THEN [ext |-> e, messages |-> <<>>, results |-> <<>>, events |-> <<>>,
        refined |-> <<>>, stats |-> Stats(0, 0, 0)]
  ELSE With(SortByDatetime(messages), LAMBDA sorted :
         With(process_batch(e,
                            [i \in 1..Len(sorted) |->
                               [text |-> sorted[i].text,
                                url |-> sorted[i].url]],
                            loadOK, resps),
              LAMBDA b :
         With(SelectSeq(Indices(sorted), LAMBDA i : b.results[i] # NoneR),
              LAMBDA hits :
         With([k \in 1..Len(hits) |->
                 [b.results[hits[k]] EXCEPT
                    !.telegram_url = sorted[hits[k]].url]],
              LAMBDA events :
                [ext |-> b.ext, messages |-> sorted, results |-> b.results,
                 events |-> events, refined |-> b.refined,
                 stats |-> Stats(Len(messages), Len(events),
                                 skipped_count(b.results))]))))

\* _save_results: the events file of the channel is rewritten when there are
\* events and left alone otherwise.
save_results(fs, events, channel) ==
  IF events # <<>> THEN [fs EXCEPT ![channel] = events] ELSE fs

(* ------------------------------ fetching ------------------------------- *)
wait_time_linear(retry_delay, attempt) ==
  Min(retry_delay * (attempt + 1), MaxWait)

\* wait_time = min(self.retry_delay * (2 ** attempt), 30)
wait_time(retry_delay, attempt) == Min(retry_delay * Pow2(attempt), MaxWait)

after_attempt_one_more(status, attempt, max_retries) ==
  IF status = "200" THEN "return_text"
  ELSE IF attempt < max_retries THEN "sleep"
  ELSE "return_none"

\* What _fetch_page does once attempt (0-indexed) has ended with status:
\* "200", "non200", or a raised httpx.RequestError ("timeout", "error").
after_attempt(status, attempt, max_retries) ==
  IF status = "200" THEN "return_text"
  ELSE IF attempt < max_retries - 1 THEN "sleep"
  ELSE "return_none"

\* A request ends with status 200, with another status, with a timeout
\* (httpx.TimeoutException) or with another httpx.RequestError.
Statuses == {"200", "non200", "timeout", "error"}

\* What _fetch_page returns: response.text or None.
ResponseText == [kind |-> "text"]

(* ------------------------------- state --------------------------------- *)
VARIABLES
  channels,       \* the list passed to parse_and_process
  pc,             \* per channel task: "new", "get", "done"
  attempt,        \* per task: the loop variable of _fetch_page
  result,         \* per task: what gather collects for it
  outcome,        \* per task: how its pipeline ended
  sem,            \* the value of the semaphore
  seen_messages,  \* self.seen_messages
  ext,            \* the extractor: use_llm, _llm, _llm_loaded, _llm_error
  files,          \* the events file of each channel
  statistics,     \* the dictionary parse_and_process returns
  mainpc,         \* parse_and_process: "gather" or "returned"
  cfg,            \* self.max_retries and self.retry_delay
  calls,          \* number of calls made on the extractor
  last,           \* the last call on the extractor and what it returned
  fetch           \* one _fetch_page call: position, requests made, sleeps

vars ==
  <<channels, pc, attempt, result, outcome, sem, seen_messages, ext,
    files, statistics, mainpc, cfg, calls, last, fetch>>

ChannelNames == 1..MaxChannels
Tasks == 1..Len(channels)

Pending == [kind |-> "pending"]
\* failed_at is the number of the call in which load_model raised, 0 while
\* it has not raised.
NoCall == [op |-> "none", failed_at |-> 0]
\* statuses are the outcomes of the requests made so far, slept the sleeps
\* taken: the attempt each one precedes and its length in seconds.
NoFetch ==
  [pc |-> "idle", attempt |-> 0, statuses |-> <<>>, slept |-> <<>>,
   ret |-> [kind |-> "pending"]]
NoStatistics == [kind |-> "none"]

Page(blocks) == [kind |-> "page", blocks |-> blocks]

FleetPages ==
  { Page(<<>>),
    Page(<<Block(2, TextPlain, "u1")>>),
    Page(<<Block(2, TextLecture, "u1")>>) }

FleetResponses == {RespEmpty}

\* The lists of distinct channels up to MaxChannels, and one list naming a
\* channel twice.
ChannelLists ==
  {[i \in 1..n |-> i] : n \in 1..MaxChannels} \cup {<<1, 1>>}

StatisticsInit(chans) ==
  [kind |-> "statistics", total_channels |-> Len(chans), processed |-> 0,
   failed |-> 0, total_messages |-> 0, total_events |-> 0,
   channels_stats |-> [c \in ChannelNames |-> NoneR]]

FleetInit ==
  /\ channels \in ChannelLists
  /\ pc = [i \in Tasks |-> "new"]
  /\ attempt = [i \in Tasks |-> 0]
  /\ result = [i \in Tasks |-> Pending]
  /\ outcome = [i \in Tasks |-> "pending"]
  /\ sem = SemaphoreLimit
  /\ seen_messages = {}
  /\ ext = ExtractorInit(USE_LLM)
  /\ files = [c \in ChannelNames |-> <<>>]
  /\ statistics = StatisticsInit(channels)
  /\ mainpc = "gather"
  /\ cfg = [max_retries |-> PARSER_MAX_RETRIES,
            retry_delay |-> PARSER_RETRY_DELAY]
  /\ calls = 0
  /\ last = NoCall
  /\ fetch = NoFetch

CanAcquireAlways(value) == TRUE

\* Semaphore.acquire proceeds only while the value is positive.
CanAcquire(value) == value > 0

\* async with semaphore: entered, the task runs to its first await in
\* _fetch_page. gather starts the tasks in list order and the semaphore wakes
\* its waiters in the order they queued, so slots are taken in list order.
Acquire(i) ==
  /\ mainpc = "gather"
  /\ pc[i] = "new"
  /\ \A j \in 1..(i - 1) : pc[j] # "new"
  /\ CanAcquire(sem)
  /\ sem' = sem - 1
  /\ pc' = [pc EXCEPT ![i] = "get"]
  /\ attempt' = [attempt EXCEPT ![i] = 0]
  /\ UNCHANGED <<channels, result, outcome, seen_messages, ext, files,
                 statistics, mainpc, cfg, calls, last, fetch>>

FinishKeepsSlot(i, stats, how) ==
  /\ result' = [result EXCEPT ![i] = stats]
  /\ outcome' = [outcome EXCEPT ![i] = how]
  /\ pc' = [pc EXCEPT ![i] = "done"]
  /\ attempt' = [attempt EXCEPT ![i] = 0]
  /\ sem' = sem

\* A pipeline that keeps its slot when it ends on an exception.
FinishLeaksOnException(i, stats, how) ==
  /\ result' = [result EXCEPT ![i] = stats]
  /\ outcome' = [outcome EXCEPT ![i] = how]
  /\ pc' = [pc EXCEPT ![i] = "done"]
  /\ attempt' = [attempt EXCEPT ![i] = 0]
  /\ sem' = IF how = "raised" THEN sem ELSE sem + 1

\* The task leaves the async with block, releasing its slot, and returns
\* (channel, stats) to gather; its local variables are gone.
Finish(i, stats, how) ==
  /\ result' = [result EXCEPT ![i] = stats]
  /\ outcome' = [outcome EXCEPT ![i] = how]
  /\ pc' = [pc EXCEPT ![i] = "done"]
  /\ attempt' = [attempt EXCEPT ![i] = 0]
  /\ sem' = sem + 1

\* client.get fails or answers with another status than 200: the task sleeps
\* wait_time and issues the next request, or _fetch_page returns None and
\* parse_channel returns []. The sleep touches no shared state and is taken
\* together with the failed attempt.
GetFails(i) ==
  /\ pc[i] = "get"
  /\ \E todo \in {after_attempt(status, attempt[i], cfg.max_retries) :
                     status \in Statuses \ {"200"}} :
       IF todo = "sleep"
       THEN /\ attempt' = [attempt EXCEPT ![i] = attempt[i] + 1]
            /\ UNCHANGED <<pc, result, outcome, sem>>
       ELSE Finish(i, NoneR, "fetch_failed")
  /\ UNCHANGED <<channels, seen_messages, ext, files, statistics, mainpc,
                 cfg, calls, last, fetch>>

\* The outcomes the refinement model can have on a batch: whether load_model
\* succeeds if it is invoked and what generate_response returns for each
\* post; one outcome when no post of the batch is event-like, since the model
\* is then not consulted.
Oracles(messages, responses) ==
  IF \E k \in 1..Len(messages) : is_event_text(messages[k].text)
  THEN [loadOK : BOOLEAN, resps : [1..Len(messages) -> responses]]
  ELSE {[loadOK |-> TRUE, resps |-> [k \in 1..Len(messages) |-> RespEmpty]]}

\* client.get answers 200: the page is parsed, its posts are processed and
\* the results are saved. _save_results writes only the files of the task's
\* own channel and is taken together with the processing; with saved = FALSE
\* writing the events file raises (OSError) after k events were written, and
\* the exception is caught by parse_and_process_channel.
PageArrives(i, saved) ==
  /\ pc[i] = "get"
  /\ after_attempt("200", attempt[i], cfg.max_retries) = "return_text"
  /\ \E page \in FleetPages :
       \E p \in {parse_channel(channels[i], page, seen_messages)} :
           /\ seen_messages' = p.seen
           /\ IF p.messages = <<>>
              THEN /\ saved
                   /\ Finish(i, NoneR, "empty")
                   /\ UNCHANGED <<ext, files>>
              ELSE \E o \in Oracles(p.messages, FleetResponses) :
                     \E r \in {process_channel_messages(ext, p.messages,
                                                        channels[i], o.loadOK,
                                                        o.resps)} :
                         /\ ext' = r.ext
                         /\ IF saved
                            THEN /\ files' = save_results(files, r.events,
                                                          channels[i])
                                 /\ Finish(i, r.stats, "ok")
                            ELSE /\ r.events # <<>>
                                 /\ \E k \in 0..(Len(r.events) - 1) :
                                      files' = [files EXCEPT ![channels[i]] =
                                                  SubSeq(r.events, 1, k)]
                                 /\ Finish(i, NoneR, "raised")
  /\ UNCHANGED <<channels, statistics, mainpc, cfg, calls, last, fetch>>

GetOK(i) == PageArrives(i, TRUE)

SaveRaises(i) == PageArrives(i, FALSE)

count_result_drop_failed(st, channel, r) ==
  IF r.kind = "stats"
  THEN [st EXCEPT !.processed = @ + 1,
                  !.total_messages = @ + r.total,
                  !.total_events = @ + r.events,
                  !.channels_stats = [@ EXCEPT ![channel] = r]]
  ELSE st

count_result_swapped(st, channel, r) ==
  IF r.kind = "exception" THEN [st EXCEPT !.failed = @ + 1]
  ELSE IF r.kind = "stats"
  THEN [st EXCEPT !.processed = @ + 1,
                  !.total_messages = @ + r.events,
                  !.total_events = @ + r.total,
                  !.channels_stats = [@ EXCEPT ![channel] = r]]
  ELSE [st EXCEPT !.failed = @ + 1]

\* A loop that also files empty statistics under a failed channel.
count_result_entry_for_failed(st, channel, r) ==
  IF r.kind = "exception" THEN [st EXCEPT !.failed = @ + 1]
  ELSE IF r.kind = "stats"
  THEN [st EXCEPT !.processed = @ + 1,
                  !.total_messages = @ + r.total,
                  !.total_events = @ + r.events,
                  !.channels_stats = [@ EXCEPT ![channel] = r]]
  ELSE [st EXCEPT !.failed = @ + 1,
                  !.channels_stats = [@ EXCEPT ![channel] = Stats(0, 0, 0)]]

\* One iteration of the loop over the results of gather.
count_result(st, channel, r) ==
  IF r.kind = "exception" THEN [st EXCEPT !.failed = @ + 1]
  ELSE IF r.kind = "stats"
  THEN [st EXCEPT !.processed = @ + 1,
                  !.total_messages = @ + r.total,
                  !.total_events = @ + r.events,
                  !.channels_stats = [@ EXCEPT ![channel] = r]]
  ELSE [st EXCEPT !.failed = @ + 1]

RECURSIVE aggregate(_, _, _, _)
aggregate(st, chans, results, i) ==
  IF i > Len(results) THEN st
  ELSE aggregate(count_result(st, chans[i], results[i]), chans, results,
                 i + 1)

\* gather returns once every task is done; the results are counted and
\* parse_and_process returns the statistics.
Aggregate ==
  /\ mainpc = "gather"
  /\ \A i \in Tasks : pc[i] = "done"
  /\ statistics' = aggregate(statistics, channels, result, 1)
  /\ mainpc' = "returned"
  /\ UNCHANGED <<channels, pc, attempt, result, outcome, sem,
                 seen_messages, ext, files, cfg, calls, last, fetch>>

Next ==
  \/ \E i \in Tasks : Acquire(i)
  \/ \E i \in Tasks : GetFails(i)
  \/ \E i \in Tasks : GetOK(i)
  \/ \E i \in Tasks : SaveRaises(i)
  \/ Aggregate

Spec == FleetInit /\ [][Next]_vars

\* The event loop runs every task that can run, and every request and sleep
\* ends.
FairSpec == Spec /\ WF_vars(Next)

(* ----------------------- claims on the fleet run ------------------------ *)
InFlight == {i \in Tasks : pc[i] = "get"}

WithOutcome(hows) == {i \in Tasks : outcome[i] \in hows}

RECURSIVE SumOver(_, _)
SumOver(tasks, field) ==
  IF tasks = {} THEN 0
  ELSE LET i == CHOOSE j \in tasks : TRUE
       IN  result[i][field] + SumOver(tasks \ {i}, field)

\* C1: in every reachable state of a fleet run at most 3 channel pipelines
\* hold an admission slot, hence at most 3 page fetches are in flight.
C1_AtMostThreeInFlight == Cardinality(InFlight) <= 3

\* Three pipelines hold a slot while a fourth channel waits for one.
C1_Witness ==
  /\ Cardinality(InFlight) = 3
  /\ \E i \in Tasks : pc[i] = "new"

\* C2: a channel whose pipeline raised or whose fetch failed is counted once
\* in failed, the run still returns, and every other channel has run to its
\* end and is counted on its own outcome; the step in which a channel fails
\* changes nothing of the other channels.
C2_FailureIsolated ==
  /\ [](mainpc = "returned" =>
          /\ \A i \in Tasks : pc[i] = "done" /\ outcome[i] # "pending"
          /\ statistics.failed =
               Cardinality(WithOutcome({"raised", "fetch_failed"}))
                 + Cardinality(WithOutcome({"empty"}))
          /\ statistics.processed = Cardinality(WithOutcome({"ok"})))
  /\ [][\A i \in Tasks :
          (outcome[i] = "pending"
             /\ outcome'[i] \in {"raised", "fetch_failed"})
          => /\ mainpc' = "gather"
             /\ \A j \in Tasks \ {i} :
                  /\ pc'[j] = pc[j]
                  /\ result'[j] = result[j]
                  /\ outcome'[j] = outcome[j]]_vars

\* The run has returned with one channel that raised, one whose fetch
\* failed and one that was processed.
C2_Witness ==
  /\ mainpc = "returned"
  /\ WithOutcome({"raised"}) # {}
  /\ WithOutcome({"fetch_failed"}) # {}
  /\ WithOutcome({"ok"}) # {}

\* C3: under fair scheduling the run terminates and returns its statistics,
\* whatever the channels and the refinement model do.
C3_RunTerminates == <>(mainpc = "returned")

\* The run has returned although every channel of a full list failed and the
\* refinement model failed to load.
C3_Witness ==
  /\ mainpc = "returned"
  /\ Len(channels) = MaxChannels
  /\ WithOutcome({"ok"}) = {}
  /\ ext.llm_error
  /\ statistics.failed = Len(channels)

\* C4: when the run returns, total_messages and total_events are the sums of
\* total and events over the channels that did not fail.
C4_TotalsAreSums ==
  mainpc = "returned" =>
    /\ statistics.total_messages = SumOver(WithOutcome({"ok"}), "total")
    /\ statistics.total_events = SumOver(WithOutcome({"ok"}), "events")

\* The run has returned with failed channels and with processed channels
\* whose totals and event counts differ.
C4_Witness ==
  /\ mainpc = "returned"
  /\ Cardinality(WithOutcome({"ok"})) >= 2
  /\ WithOutcome({"raised", "fetch_failed", "empty"}) # {}
  /\ statistics.total_events >= 1
  /\ statistics.total_messages > statistics.total_events

\* C7: across the interleavings of the channel pipelines of one run, which
\* share one extractor, load_model is invoked at most once.
C7_LoadAtMostOnce == ext.loads <= 1

\* Two channels have had event-like posts processed, a third pipeline is
\* still in flight, and the model was loaded once.
C7_Witness ==
  /\ ext.loads = 1
  /\ \E i, j \in WithOutcome({"ok"}) :
       i # j /\ result[i].events >= 1 /\ result[j].events >= 1
  /\ InFlight # {}
(* ------------------------- one _fetch_page call ------------------------ *)
\* The state of the parser object while no fleet run is under way.
NoRun ==
  /\ channels = <<>>
  /\ pc = <<>>
  /\ attempt = <<>>
  /\ result = <<>>
  /\ outcome = <<>>
  /\ sem = SemaphoreLimit
  /\ statistics = NoStatistics
  /\ mainpc = "idle"

RetryDelays == {1, PARSER_RETRY_DELAY, 40}

\* The parser is constructed with any max_retries and retry_delay.
FetchInit ==
  /\ NoRun
  /\ seen_messages = {}
  /\ ext = ExtractorInit(USE_LLM)
  /\ files = [c \in ChannelNames |-> <<>>]
  /\ cfg \in [max_retries : 0..MaxRetriesBound, retry_delay : RetryDelays]
  /\ calls = 0
  /\ last = NoCall
  /\ fetch = NoFetch

\* _fetch_page is called: range(max_retries) is empty and None is returned,
\* or the first request is issued.
FetchStart ==
  /\ fetch.pc = "idle"
  /\ fetch' = IF cfg.max_retries > 0
              THEN [fetch EXCEPT !.pc = "get", !.attempt = 0]
              ELSE [fetch EXCEPT !.pc = "done", !.ret = NoneR]
  /\ UNCHANGED <<channels, pc, attempt, result, outcome, sem, seen_messages,
                 ext, files, statistics, mainpc, cfg, calls, last>>

\* The request of the current attempt ends with status.
FetchResponse(status) ==
  /\ fetch.pc = "get"
  /\ LET todo == after_attempt(status, fetch.attempt, cfg.max_retries)
         answered == [fetch EXCEPT !.statuses = Append(@, status)]
     IN  fetch' =
           CASE todo = "return_text" ->
                  [answered EXCEPT !.pc = "done", !.ret = ResponseText]
             [] todo = "sleep" ->
                  [answered EXCEPT
                     !.pc = "sleep",
                     !.slept = Append(@, [before |-> fetch.attempt + 1,
                                          delay |-> wait_time(cfg.retry_delay,
                                                              fetch.attempt)])]
             [] OTHER -> [answered EXCEPT !.pc = "done", !.ret = NoneR]
  /\ UNCHANGED <<channels, pc, attempt, result, outcome, sem, seen_messages,
                 ext, files, statistics, mainpc, cfg, calls, last>>

\* asyncio.sleep returns and the loop issues the next request.
FetchWake ==
  /\ fetch.pc = "sleep"
  /\ fetch' = [fetch EXCEPT !.pc = "get", !.attempt = @ + 1]
  /\ UNCHANGED <<channels, pc, attempt, result, outcome, sem, seen_messages,
                 ext, files, statistics, mainpc, cfg, calls, last>>

FetchNext ==
  \/ FetchStart
  \/ \E status \in Statuses : FetchResponse(status)
  \/ FetchWake

SpecFetch == FetchInit /\ [][FetchNext]_vars

Answered == Len(fetch.statuses)

Requests == Answered + (IF fetch.pc = "get" THEN 1 ELSE 0)

\* C9: one call of the fetcher issues at most max_retries requests; after a
\* transport failure or a status other than 200 it goes on to another attempt
\* while attempts remain; the first 200 ends the call, which returns that
\* response's text and issues nothing further.
C9_AtMostMaxRetriesStopAt200 ==
  /\ Requests <= cfg.max_retries
  /\ \A k \in 1..(Answered - 1) : fetch.statuses[k] # "200"
  /\ (Answered > 0 /\ fetch.statuses[Answered] = "200")
       => fetch.pc = "done" /\ fetch.ret = ResponseText
  /\ (Answered > 0 /\ fetch.statuses[Answered] # "200"
        /\ Answered < cfg.max_retries)
       => fetch.pc \in {"sleep", "get"}
  /\ (fetch.pc = "done" /\ fetch.ret = NoneR)
       => /\ Answered = cfg.max_retries
          /\ \A k \in 1..Answered : fetch.statuses[k] # "200"

\* With the configured number of attempts a transport failure, then a status
\* other than 200, then a 200: the call has returned the third response.
C9_Witness ==
  /\ cfg.max_retries = PARSER_MAX_RETRIES
  /\ fetch.statuses = <<"error", "non200", "200">>
  /\ fetch.pc = "done"
  /\ fetch.ret = ResponseText

\* C10 as stated: the delay slept before attempt k (0-indexed) is
\* min(retry_delay * 2^k, 30).
C10_DelayBeforeAttemptK ==
  \A n \in 1..Len(fetch.slept) :
    fetch.slept[n].delay =
      Min(cfg.retry_delay * Pow2(fetch.slept[n].before), MaxWait)

\* C10 amended: the delay slept after the failed attempt k (0-indexed), that
\* is before attempt k + 1, is min(retry_delay * 2^k, 30); nothing is slept
\* before attempt 0 nor after the last attempt.
C10_DelayAfterAttemptK ==
  /\ \A n \in 1..Len(fetch.slept) :
       /\ fetch.slept[n].before = n
       /\ fetch.slept[n].delay =
            Min(cfg.retry_delay * Pow2(n - 1), MaxWait)
  /\ Len(fetch.slept) =
       IF fetch.pc = "sleep" THEN Answered
       ELSE IF Requests = 0 THEN 0 ELSE Requests - 1

\* With the configured base delay the call has slept 2, 4, 8, 16 and then the
\* capped 30 seconds, and has given up after the last attempt.
C10_Witness ==
  /\ cfg.retry_delay = PARSER_RETRY_DELAY
  /\ fetch.pc = "done"
  /\ fetch.ret = NoneR
  /\ Len(fetch.slept) = 5
  /\ fetch.slept[4].delay = 16
  /\ fetch.slept[5].delay = MaxWait
FetchError(kind, attempts) ==
  [kind |-> "fetch_error", error |-> kind, attempts |-> attempts]

FailureKind(status) ==
  CASE status = "timeout" -> "Timeout"
    [] status = "non200" -> "HTTPStatus"
    [] OTHER -> "Transport"

\* C11: a call that has used up its attempts returns an error value that
\* records the kind of the failure and the number of attempts made.
C11_ExhaustedReturnsFetchError ==
  (fetch.pc = "done" /\ Answered > 0 /\ fetch.statuses[Answered] # "200")
    => fetch.ret = FetchError(FailureKind(fetch.statuses[Answered]), Answered)

\* With the configured number of attempts a timeout, a status other than 200
\* and a transport failure: the call has returned None.
C11_Witness ==
  /\ cfg.max_retries = PARSER_MAX_RETRIES
  /\ fetch.pc = "done"
  /\ fetch.statuses = <<"timeout", "non200", "error">>
  /\ fetch.ret = NoneR

(* --------------------- calls on one extractor object ------------------- *)
RefineTexts == {TextPlain, TextLecture, TextConcert}

RefineBatches ==
  { <<[text |-> TextLecture, url |-> "u1"]>>,
    <<[text |-> TextPlain, url |-> "u1"],
      [text |-> TextConcert, url |-> "u2"]>> }

\* The extractor is constructed with use_llm set or not.
RefineInit ==
  /\ NoRun
  /\ seen_messages = {}
  /\ ext \in {ExtractorInit(use_llm) : use_llm \in BOOLEAN}
  /\ files = [c \in ChannelNames |-> <<>>]
  /\ cfg = [max_retries |-> PARSER_MAX_RETRIES,
            retry_delay |-> PARSER_RETRY_DELAY]
  /\ calls = 0
  /\ last = NoCall
  /\ fetch = NoFetch

\* The record of a call: its return value and the extractor before it.
Called(op, ret, after) ==
  [op |-> op, ret |-> ret, before |-> ext,
   failed_at |-> IF last.failed_at = 0 /\ after.llm_error
                 THEN calls + 1 ELSE last.failed_at]

\* What the refinement model can do in a call on extractor e for n texts:
\* whether load_model succeeds if it is invoked, which only an extractor that
\* has not loaded yet does, and what generate_response returns for each
\* text, which a failed extractor never asks.
CallOracles(e, n, responses) ==
  [loadOK : IF LoadState(e) = "Unloaded" THEN BOOLEAN ELSE {TRUE},
   resps : [1..n -> IF LoadState(e) = "Failed" THEN {RespEmpty}
                    ELSE responses]]

\* One call of _refine_with_llm. A first call and MaxCalls further ones are
\* followed.
CallRefine ==
  /\ calls <= MaxCalls
  /\ \E text \in RefineTexts, o \in CallOracles(ext, 1, Responses) :
       \E r \in {refine_with_llm(ext, text, HeuristicInfo(text), o.loadOK,
                                 o.resps[1])} :
           /\ ext' = r.ext
           /\ last' = Called("refine", r.ret, r.ext)
  /\ calls' = calls + 1
  /\ UNCHANGED <<channels, pc, attempt, result, outcome, sem, seen_messages,
                 files, statistics, mainpc, cfg, fetch>>

\* One call of extract_event_info.
CallExtract ==
  /\ calls <= MaxCalls
  /\ \E text \in RefineTexts, o \in CallOracles(ext, 1, Responses) :
       \E r \in {extract_event_info(ext, text, "u1", o.loadOK,
                                    o.resps[1])} :
           /\ ext' = r.ext
           /\ last' = Called("extract", r.ret, r.ext)
  /\ calls' = calls + 1
  /\ UNCHANGED <<channels, pc, attempt, result, outcome, sem, seen_messages,
                 files, statistics, mainpc, cfg, fetch>>

\* One call of process_batch.
CallBatch ==
  /\ calls <= MaxCalls
  /\ \E texts \in RefineBatches :
       \E o \in CallOracles(ext, Len(texts), {RespEmpty, JsonFull}) :
         \E r \in {process_batch(ext, texts, o.loadOK, o.resps)} :
             /\ ext' = r.ext
             /\ last' = Called("batch", r.results, r.ext)
  /\ calls' = calls + 1
  /\ UNCHANGED <<channels, pc, attempt, result, outcome, sem, seen_messages,
                 files, statistics, mainpc, cfg, fetch>>

RefineNext ==
  \/ CallRefine
  \/ CallExtract
  \/ CallBatch

SpecRefine == RefineInit /\ [][RefineNext]_vars

\* C5: a refinement call made once a load has failed returns null, and no
\* call made from then on, of whatever kind, invokes load_model again: the
\* load count stays and the failure stays recorded.
C5_FailedLoadIsFinal ==
  /\ []((last.op = "refine" /\ last.before.llm_error)
          => last.ret = NoneR /\ ext.loads = last.before.loads)
  /\ [][ext.llm_error => ext'.llm_error /\ ext'.loads = ext.loads]_vars

\* The load raised in the first call and MaxCalls calls were made since, the
\* last of them a refinement call.
C5_Witness ==
  /\ last.failed_at = 1
  /\ calls = MaxCalls + 1
  /\ last.op = "refine"
  /\ last.before.llm_error
  /\ ext.loads = 1

\* C6: the load state starts Unloaded; it changes only from Unloaded, to
\* Loaded or to Failed, in a step that invokes load_model; it is never both
\* loaded and failed.
C6_LoadStateTransitions ==
  /\ LoadState(ext) = "Unloaded"
  /\ ~ext.llm_loaded /\ ~ext.llm_error
  /\ [][LoadState(ext') # LoadState(ext)
          => /\ LoadState(ext) = "Unloaded"
             /\ LoadState(ext') \in {"Loaded", "Failed"}
             /\ ext'.loads = ext.loads + 1]_vars
  /\ [](~(ext.llm_loaded /\ ext.llm_error))

\* The model is loaded and a refinement call that returned null has left it
\* loaded.
C6_Witness ==
  /\ last.op = "refine"
  /\ LoadState(last.before) = "Loaded"
  /\ last.ret = NoneR
  /\ LoadState(ext) = "Loaded"
(* ------------------- one channel through the coordinator --------------- *)
\* Pages of one channel: two event-like posts under one permalink; a page
\* where one post is event-like, one is not and the others are skipped by the
\* parser; two event-like posts with their own permalinks; a page out of
\* time order where one post is repeated under another permalink and two
\* posts have the same time; a page where an event-like post comes after a
\* block of each kind the parser skips; a page whose only post is not
\* event-like; an empty page.
ChannelPages ==
  { Page(<<Block(2, TextLecture, "u1"), Block(3, TextConcert, "u1")>>),
    Page(<<Block(3, TextLecture, "u1"), Block(2, TextPlain, "u2"),
           Block(NoTime, TextConcert, "u3"), Block(2, TextShort, "u4"),
           Block(0, TextConcert, "u5"), Block(2, TextConcert, "")>>),
    Page(<<Block(3, TextConcert, "u2"), Block(2, TextLecture, "u3")>>),
    Page(<<Block(3, TextConcert, "u6"), Block(2, TextLecture, "u7"),
           Block(2, TextLecture, "u8"), Block(2, TextPlain, "u9")>>),
    Page(<<Block(NoTime, TextConcert, "u10"), Block(BadTime, TextConcert, "u11"),
           Block(0, TextConcert, "u12"), Block(4, NoText, "u13"),
           Block(4, TextShort, "u14"), Block(4, TextConcert, ""),
           Block(4, TextLecture, "u15")>>),
    Page(<<Block(5, TextPlain, "u16")>>),
    Page(<<>>) }

ChannelInit ==
  /\ NoRun
  /\ seen_messages = {}
  /\ ext \in {ExtractorInit(use_llm) : use_llm \in BOOLEAN}
  /\ files = [c \in ChannelNames |-> <<>>]
  /\ cfg = [max_retries |-> PARSER_MAX_RETRIES,
            retry_delay |-> PARSER_RETRY_DELAY]
  /\ calls = 0
  /\ last = NoCall
  /\ fetch = NoFetch

\* The record of a run keeps the page, the dedup set before the run, the
\* posts parse_channel returned (parsed) and the sorted posts (messages).
\* parse_channel returns [] for channel 1, the fetch having failed or the
\* page holding no new post: the pipeline ends without processing.
RunChannelEmpty ==
  /\ calls < MaxRuns
  /\ \E html \in ChannelPages \cup {NoneR} :
       \E p \in {parse_channel(1, html, seen_messages)} :
           /\ p.messages = <<>>
           /\ seen_messages' = p.seen
           /\ last' = [op |-> "channel", html |-> html,
                       seen_before |-> seen_messages, parsed |-> <<>>,
                       messages |-> <<>>, results |-> <<>>,
                       refined |-> <<>>, events |-> <<>>, stats |-> NoneR,
                       failed_at |-> last.failed_at]
  /\ calls' = calls + 1
  /\ UNCHANGED <<channels, pc, attempt, result, outcome, sem, ext, files,
                 statistics, mainpc, cfg, fetch>>

\* parse_channel returns posts of channel 1 and process_channel_messages
\* runs on them, saving the events.
RunChannel ==
  /\ calls < MaxRuns
  /\ \E html \in ChannelPages :
       \E p \in {parse_channel(1, html, seen_messages)} :
           /\ p.messages # <<>>
           /\ seen_messages' = p.seen
           /\ \E o \in Oracles(p.messages, Responses) :
                \E r \in {process_channel_messages(ext, p.messages, 1,
                                                   o.loadOK, o.resps)} :
                    /\ ext' = r.ext
                    /\ files' = save_results(files, r.events, 1)
                    /\ last' = [op |-> "channel", html |-> html,
                                seen_before |-> seen_messages,
                                parsed |-> p.messages,
                                messages |-> r.messages,
                                results |-> r.results,
                                refined |-> r.refined, events |-> r.events,
                                stats |-> r.stats,
                                failed_at |-> last.failed_at]
  /\ calls' = calls + 1
  /\ UNCHANGED <<channels, pc, attempt, result, outcome, sem, statistics,
                 mainpc, cfg, fetch>>

ChannelNext ==
  \/ RunChannelEmpty
  \/ RunChannel

SpecChannel == ChannelInit /\ [][ChannelNext]_vars

\* The posts of the last run for which refinement yielded null.
NullRefined == {i \in 1..Len(last.messages) : last.refined[i] = "null"}

EventLike ==
  {i \in 1..Len(last.messages) : is_event_text(last.messages[i].text)}

CarriesHeuristicDraft(record, text) ==
  /\ record # NoneR
  /\ record.title = HeuristicInfo(text).title
  /\ record.date = HeuristicInfo(text).date
  /\ record.time = HeuristicInfo(text).time
  /\ record.location = HeuristicInfo(text).location
  /\ record.category = HeuristicInfo(text).category

\* C8: every event-like post for which refinement yielded null has, in the
\* results of its run, a record carrying the heuristic title, date, time,
\* location and category of that post, and no event-like post is counted as
\* skipped.
C8_NullRefinementKeepsDraft ==
  last.op = "channel" /\ last.messages # <<>> =>
    /\ \A i \in NullRefined :
         CarriesHeuristicDraft(last.results[i], last.messages[i].text)
    /\ last.stats.events = Cardinality(EventLike)
    /\ last.stats.skipped = Len(last.messages) - Cardinality(EventLike)

PermalinksDistinct ==
  last.op = "channel" =>
  \A i, j \in 1..Len(last.messages) :
    last.messages[i].url = last.messages[j].url => i = j

\* The same statement for the runs whose posts have permalinks of their own.
C8_KeepsDraftUnderDistinctPermalinks ==
  PermalinksDistinct => C8_NullRefinementKeepsDraft

\* Two event-like posts of one run share a permalink and differ in text, and
\* refinement yielded null for both.
C8_Witness ==
  /\ last.op = "channel"
  /\ NullRefined = {1, 2}
  /\ last.messages[1].url = last.messages[2].url
  /\ last.messages[1].text # last.messages[2].text
(* -------------------- claims on dedup and ordering --------------------- *)
\* The blocks of the last run's page that pass the parser's other checks, as
\* the posts they describe, in document order.
PagePosts ==
  IF last.html = NoneR THEN <<>>
  ELSE LET kept == SelectSeq(last.html.blocks,
                             LAMBDA div : /\ div.ts # NoTime
                                          /\ div.ts >= Cutoff
                                          /\ div.text.len >= MinTextLen
                                          /\ div.url # "")
       IN  [k \in 1..Len(kept) |->
              TelegramMessage(kept[k].text, kept[k].ts, kept[k].url, 1)]

\* The positions of PagePosts holding the first occurrence in the run of a
\* digest the dedup set did not hold before.
FirstOccurrences ==
  SelectSeq(Indices(PagePosts),
            LAMBDA k :
              /\ generate_message_hash(PagePosts[k]) \notin last.seen_before
              /\ \A j \in 1..(k - 1) :
                   generate_message_hash(PagePosts[j])
                     # generate_message_hash(PagePosts[k]))

\* C12: of the posts with one digest only the first encountered is admitted:
\* the admitted posts are the first occurrences, in document order, of the
\* digests not seen before; no two admitted posts share a digest, none has a
\* digest seen before, and total counts the admitted posts only.
C12_FirstOccurrenceOnly ==
  last.op = "channel" =>
    /\ last.parsed =
         [n \in 1..Len(FirstOccurrences) |-> PagePosts[FirstOccurrences[n]]]
    /\ \A m, n \in 1..Len(last.parsed) :
         generate_message_hash(last.parsed[m])
           = generate_message_hash(last.parsed[n]) => m = n
    /\ \A n \in 1..Len(last.parsed) :
         /\ generate_message_hash(last.parsed[n]) \notin last.seen_before
         /\ generate_message_hash(last.parsed[n]) \in seen_messages
    /\ last.parsed # <<>> => last.stats.total = Len(FirstOccurrences)

\* On a fresh dedup set a page of four posts, one of them repeating the
\* digest of an earlier one: three were admitted and counted.
C12_Witness ==
  /\ last.op = "channel"
  /\ last.seen_before = {}
  /\ Len(PagePosts) = 4
  /\ Len(last.parsed) = 3
  /\ last.stats.total = 3

\* C13: two posts of a page that agree on text, timestamp and channel have
\* the same digest whatever their id and permalink, and a run that parses the
\* page of the run before it, the digests being retained, admits no post.
C13_DigestOfTextTimeChannel ==
  /\ [](last.op = "channel" =>
          \A i, j \in 1..Len(PagePosts) :
            (/\ PagePosts[i].text = PagePosts[j].text
             /\ PagePosts[i].datetime = PagePosts[j].datetime
             /\ PagePosts[i].channel = PagePosts[j].channel)
            => generate_message_hash(PagePosts[i])
                 = generate_message_hash(PagePosts[j]))
  /\ [][(/\ last.op = "channel"
         /\ last'.op = "channel"
         /\ calls' = calls + 1
         /\ last'.html = last.html)
        => last'.parsed = <<>>]_vars

\* A page with two posts of one text and time under different permalinks was
\* parsed a second time and nothing was admitted.
C13_Witness ==
  /\ last.op = "channel"
  /\ \E i, j \in 1..Len(PagePosts) :
       /\ i # j
       /\ PagePosts[i].text = PagePosts[j].text
       /\ PagePosts[i].datetime = PagePosts[j].datetime
       /\ PagePosts[i].url # PagePosts[j].url
  /\ \A k \in 1..Len(PagePosts) :
       generate_message_hash(PagePosts[k]) \in last.seen_before
  /\ last.parsed = <<>>

PositionIn(seq, m) == CHOOSE k \in 1..Len(seq) : seq[k] = m

\* C20: the posts handed to extraction are the admitted posts in ascending
\* order of timestamp, posts of equal timestamp in document order; results
\* are aligned with that order, and the events are collected and written in
\* it.
C20_StableAscendingOrder ==
  last.op = "channel" =>
    /\ Len(last.messages) = Len(last.parsed)
    /\ \A n \in 1..Len(last.parsed) :
         \E k \in 1..Len(last.messages) : last.messages[k] = last.parsed[n]
    /\ \A i, j \in 1..Len(last.messages) :
         i < j =>
           /\ last.messages[i].datetime <= last.messages[j].datetime
           /\ last.messages[i].datetime = last.messages[j].datetime
                => PositionIn(last.parsed, last.messages[i])
                     < PositionIn(last.parsed, last.messages[j])
    /\ Len(last.results) = Len(last.messages)
    /\ \A i \in 1..Len(last.messages) :
         last.results[i] # NoneR <=> is_event_text(last.messages[i].text)
    /\ LET hits == SelectSeq(Indices(last.messages),
                             LAMBDA i : last.results[i] # NoneR)
       IN  /\ Len(last.events) = Len(hits)
           /\ \A k \in 1..Len(hits) :
                last.events[k].telegram_url = last.messages[hits[k]].url
    /\ last.events # <<>> => files[1] = last.events

\* A page out of time order with two posts of one time: the later post was
\* moved behind them, they kept their document order, and two events were
\* written.
C20_Witness ==
  /\ last.op = "channel"
  /\ Len(last.parsed) = 3
  /\ last.messages # last.parsed
  /\ last.messages[1].datetime = last.messages[2].datetime
  /\ last.messages[2].datetime < last.messages[3].datetime
  /\ Len(last.events) = 2
  /\ files[1] = last.events
(* ------------------ the classifier and the extractor on a text --------- *)
DateClasses == {"relative", "numeric", "short", "named", "none"}
TimeClasses == {"range", "single", "daypart", "none"}
LocationClasses == {"platform", "online", "room", "venue", "polytech", "none"}

\* The texts as the classifier and the field extractors see them. The
\* classifier's pattern sets and the extractors' own patterns differ, so the
\* has* flags and the classes vary independently.
InputTexts ==
  [id : {"t"}, len : {40}, kw : 0..MaxKeywords, hasDate : BOOLEAN,
   hasTime : BOOLEAN, hasLocation : BOOLEAN, dateCls : DateClasses,
   timeCls : TimeClasses, locCls : LocationClasses, catHits : {NoHits}]

ExtractInit ==
  /\ NoRun
  /\ seen_messages = {}
  /\ ext \in {ExtractorInit(use_llm) : use_llm \in BOOLEAN}
  /\ files = [c \in ChannelNames |-> <<>>]
  /\ cfg = [max_retries |-> PARSER_MAX_RETRIES,
            retry_delay |-> PARSER_RETRY_DELAY]
  /\ calls = 0
  /\ last \in [op : {"input"}, text : InputTexts, failed_at : {0}]
  /\ fetch = NoFetch

\* is_event_text is called on the text.
Classify ==
  /\ last.op = "input"
  /\ last' = [op |-> "classify", text |-> last.text,
              ret |-> is_event_text(last.text), failed_at |-> 0]
  /\ calls' = calls + 1
  /\ UNCHANGED <<channels, pc, attempt, result, outcome, sem, seen_messages,
                 ext, files, statistics, mainpc, cfg, fetch>>

\* The texts that have one match more than text: one more keyword, or a
\* date, time or location pattern that did not match before.
OneMoreMatch(text) ==
  (IF text.kw < MaxKeywords THEN {[text EXCEPT !.kw = @ + 1]} ELSE {})
    \cup (IF text.hasDate THEN {} ELSE {[text EXCEPT !.hasDate = TRUE]})
    \cup (IF text.hasTime THEN {} ELSE {[text EXCEPT !.hasTime = TRUE]})
    \cup (IF text.hasLocation THEN {}
          ELSE {[text EXCEPT !.hasLocation = TRUE]})

\* is_event_text is called on the classified text with one match added;
\* before is what the call on the text without it returned.
ClassifyWithMore ==
  /\ last.op \in {"classify", "classify_more"}
  /\ \E text \in OneMoreMatch(last.text) :
       last' = [op |-> "classify_more", text |-> text,
                ret |-> is_event_text(text), before |-> last.ret,
                failed_at |-> 0]
  /\ calls' = calls + 1
  /\ UNCHANGED <<channels, pc, attempt, result, outcome, sem, seen_messages,
                 ext, files, statistics, mainpc, cfg, fetch>>

\* extract_event_info is called on the text.
Extract ==
  /\ last.op = "input"
  /\ \E o \in CallOracles(ext, 1, Responses) :
       \E r \in {extract_event_info(ext, last.text, "u1", o.loadOK,
                                    o.resps[1])} :
           /\ ext' = r.ext
           /\ last' = [op |-> "extract", text |-> last.text, ret |-> r.ret,
                       refined |-> r.refined, failed_at |-> 0]
  /\ calls' = calls + 1
  /\ UNCHANGED <<channels, pc, attempt, result, outcome, sem, seen_messages,
                 files, statistics, mainpc, cfg, fetch>>

ExtractNext ==
  \/ Classify
  \/ ClassifyWithMore
  \/ Extract

SpecExtract == ExtractInit /\ [][ExtractNext]_vars

Classified == last.op \in {"classify", "classify_more"}

FieldsMatched(text) ==
  (IF text.hasDate THEN 1 ELSE 0) + (IF text.hasTime THEN 1 ELSE 0)
    + (IF text.hasLocation THEN 1 ELSE 0)

C16_ClassifierMonotonic ==
  [][(/\ Classified
      /\ last'.op = "classify_more"
      /\ last'.text.kw >= last.text.kw
      /\ last.text.hasDate => last'.text.hasDate
      /\ last.text.hasTime => last'.text.hasTime
      /\ last.text.hasLocation => last'.text.hasLocation
      /\ last.ret)
     => last'.ret]_vars

\* An event-like text with one keyword and one field has got a second field
\* and is still event-like.
C16_Witness ==
  /\ last.op = "classify_more"
  /\ last.before
  /\ last.ret
  /\ last.text.kw = 1
  /\ FieldsMatched(last.text) = 2

\* C17: every record extract_event_info returns, heuristic or refined, has a
\* confidence from 0.0 to 1.0 (0 to 300 in units of 1/300).
C17_ConfidenceInUnitInterval ==
  (last.op = "extract" /\ last.ret # NoneR)
    => last.ret.confidence >= 0 /\ last.ret.confidence <= 300

\* A heuristic record of a text with the three best recognized fields: its
\* confidence is 0.95.
C17_Witness ==
  /\ last.op = "extract"
  /\ last.ret # NoneR
  /\ last.refined # "ok"
  /\ last.ret.confidence = 285

Recognized(text) ==
  {f \in {"date", "time", "location"} :
     CASE f = "date" -> extract_date(text).value # "unspecified"
       [] f = "time" -> extract_time(text).value # "unspecified"
       [] OTHER -> extract_location(text).value # "unspecified"}

\* C18: a record has confidence 0 only when the extractors recognized none
\* of date, time and location, its three fields then carrying the
\* unspecified value; with a recognized field the confidence is positive.
C18_ZeroConfidenceMeansNothingRecognized ==
  (last.op = "extract" /\ last.ret # NoneR)
    => /\ last.ret.confidence = 0
            => /\ Recognized(last.text) = {}
               /\ last.ret.date = "unspecified"
               /\ last.ret.time = "unspecified"
               /\ last.ret.location = "unspecified"
       /\ Recognized(last.text) # {} => last.ret.confidence > 0

\* An event-like text in which no field is recognized has a record of
\* confidence 0.
C18_Witness ==
  /\ last.op = "extract"
  /\ last.ret # NoneR
  /\ Recognized(last.text) = {}
  /\ last.ret.confidence = 0
(* ------------------ claims on failed and empty channels ---------------- *)
\* C19: the result of a channel whose fetch failed on every attempt differs
\* from the result of a channel that was fetched and had no posts.
C19_FetchFailureDistinguishable ==
  \A i, j \in Tasks :
    (outcome[i] = "fetch_failed" /\ outcome[j] = "empty")
      => result[i] # result[j]

\* The run has returned with one channel whose fetch failed and one channel
\* whose page had no posts, both counted as failed.
C19_Witness ==
  /\ mainpc = "returned"
  /\ Len(channels) = 2
  /\ WithOutcome({"fetch_failed"}) # {}
  /\ WithOutcome({"empty"}) # {}
  /\ statistics.failed = 2

(* ------------------- several runs of one parser object ----------------- *)
RunLists == {<<1>>, <<1, 2>>}

RunsInit ==
  /\ channels \in RunLists
  /\ pc = [i \in Tasks |-> "new"]
  /\ attempt = [i \in Tasks |-> 0]
  /\ result = [i \in Tasks |-> Pending]
  /\ outcome = [i \in Tasks |-> "pending"]
  /\ sem = SemaphoreLimit
  /\ seen_messages = {}
  /\ ext = ExtractorInit(USE_LLM)
  /\ files = [c \in ChannelNames |-> <<>>]
  /\ statistics = StatisticsInit(channels)
  /\ mainpc = "gather"
  /\ cfg = [max_retries |-> PARSER_MAX_RETRIES,
            retry_delay |-> PARSER_RETRY_DELAY]
  /\ calls = 0
  /\ last = NoCall
  /\ fetch = NoFetch

\* parse_and_process is called again on the parser object: a new statistics
\* dictionary, a new semaphore and new tasks; the object's dedup set, its
\* extractor and the files stay as the run before left them. calls counts the
\* runs that have returned.
RunAgain ==
  /\ mainpc = "returned"
  /\ calls + 1 < MaxRuns
  /\ calls' = calls + 1
  /\ \E chans \in RunLists :
       /\ channels' = chans
       /\ pc' = [i \in 1..Len(chans) |-> "new"]
       /\ attempt' = [i \in 1..Len(chans) |-> 0]
       /\ result' = [i \in 1..Len(chans) |-> Pending]
       /\ outcome' = [i \in 1..Len(chans) |-> "pending"]
       /\ statistics' = StatisticsInit(chans)
  /\ sem' = SemaphoreLimit
  /\ mainpc' = "gather"
  /\ UNCHANGED <<seen_messages, ext, files, cfg, last, fetch>>

RunsNext ==
  \/ Next
  \/ RunAgain

SpecRuns == RunsInit /\ [][RunsNext]_vars

RunStarting == mainpc = "gather" /\ \A i \in Tasks : pc[i] = "new"

\* C14: the dedup set is empty whenever a run starts.
C14_RunStartsEmpty == RunStarting => seen_messages = {}

\* A second run starts on a parser whose first run admitted a post.
C14_Witness ==
  /\ RunStarting
  /\ calls = 1
  /\ seen_messages # {}

(* ------------------ the events file: writing and reading --------------- *)
\* A file is a sequence of characters. The characters that the writer and
\* the reader tell apart are the brace, the quote, the backslash, the colon,
\* the comma, the space and the newline; "a" and "n" are ordinary letters,
\* a key name (such as "title") stands for its letters and a number stands
\* for the digits json.dumps writes for it, which json.loads reads back as
\* the same float.
Quote == "\""
Backslash == "\\"
Newline == "\n"
ValueChars == {"{", "}", Quote, Backslash, Newline, "a"}

RECURSIVE StringsUpTo(_)
StringsUpTo(n) ==
  IF n = 0 THEN {<<>>}
  ELSE With(StringsUpTo(n - 1),
            LAMBDA shorter :
              shorter \cup {Append(s, c) : s \in shorter, c \in ValueChars})

Str(chars) == [str |-> chars]
Num(n) == [num |-> n]

EventKeys ==
  <<"title", "date", "time", "location", "description", "category",
    "telegram_url", "confidence">>

\* EventData.to_dict: asdict keeps the fields in declaration order.
to_dict(event) == [i \in 1..Len(EventKeys) |-> <<EventKeys[i], event[EventKeys[i]]>>]

\* The escapes json.dumps writes inside a string (ensure_ascii=False).
escape_char(c) ==
  IF c = Quote THEN <<Backslash, Quote>>
  ELSE IF c = Backslash THEN <<Backslash, Backslash>>
  ELSE IF c = Newline THEN <<Backslash, "n">>
  ELSE <<c>>

RECURSIVE escape_string(_)
escape_string(chars) ==
  IF chars = <<>> THEN <<>>
  ELSE escape_char(Head(chars)) \o escape_string(Tail(chars))

dumps_string(chars) == <<Quote>> \o escape_string(chars) \o <<Quote>>

dumps_value(v) ==
  IF "num" \in DOMAIN v THEN <<ToString(v.num)>> ELSE dumps_string(v.str)

\* The members of the object from the i-th on, one per line, indented by two
\* spaces and separated by a comma and a newline.
RECURSIVE dumps_members(_, _)
dumps_members(items, i) ==
  IF i > Len(items) THEN <<>>
  ELSE <<" ", " ">> \o dumps_string(<<items[i][1]>>) \o <<":", " ">>
         \o dumps_value(items[i][2])
         \o (IF i < Len(items) THEN <<",", Newline>> ELSE <<>>)
         \o dumps_members(items, i + 1)

\* json.dumps(event_dict, ensure_ascii=False, indent=2)
json_dumps(items) ==
  IF Len(items) = 0 THEN <<"{", "}">>
  ELSE <<"{", Newline>> \o dumps_members(items, 1) \o <<Newline, "}">>

\* The events file _save_results writes: each event's JSON text followed by a
\* newline.
RECURSIVE events_jsonl(_)
events_jsonl(events) ==
  IF events = <<>> THEN <<>>
  ELSE json_dumps(to_dict(Head(events))) \o <<Newline>>
         \o events_jsonl(Tail(events))

IsSpace(c) == c \in {" ", Newline}

RECURSIVE lstrip(_)
lstrip(chars) ==
  IF chars # <<>> /\ IsSpace(Head(chars)) THEN lstrip(Tail(chars)) ELSE chars

RECURSIVE rstrip(_)
rstrip(chars) ==
  IF chars # <<>> /\ IsSpace(chars[Len(chars)])
  THEN rstrip(SubSeq(chars, 1, Len(chars) - 1))
  ELSE chars

strip(chars) == rstrip(lstrip(chars))

ScanInit ==
  [objects |-> <<>>, brace_count |-> 0, current_obj |-> <<>>,
   in_string |-> FALSE, escape_next |-> FALSE]

\* A reader that counts braces inside string literals as well.
scan_char_braces_in_strings(st, char) ==
  IF char = "{"
  THEN [st EXCEPT !.brace_count = @ + 1, !.current_obj = Append(@, char)]
  ELSE IF char = "}"
  THEN IF st.brace_count - 1 = 0
       THEN [st EXCEPT !.objects = Append(@, strip(Append(st.current_obj, char))),
                       !.current_obj = <<>>, !.brace_count = 0]
       ELSE [st EXCEPT !.current_obj = Append(@, char), !.brace_count = @ - 1]
  ELSE IF st.brace_count > 0 \/ ~IsSpace(char)
  THEN [st EXCEPT !.current_obj = Append(@, char)]
  ELSE st

\* One turn of the loop of _extract_json_objects.
scan_char(st, char) ==
  IF st.escape_next
  THEN [st EXCEPT !.current_obj = Append(@, char), !.escape_next = FALSE]
  ELSE IF char = Backslash /\ st.in_string
  THEN [st EXCEPT !.current_obj = Append(@, char), !.escape_next = TRUE]
  ELSE IF char = Quote
  THEN [st EXCEPT !.in_string = ~@, !.current_obj = Append(@, char)]
  ELSE IF st.in_string
  THEN [st EXCEPT !.current_obj = Append(@, char)]
  ELSE IF char = "{"
  THEN [st EXCEPT !.brace_count = @ + 1, !.current_obj = Append(@, char)]
  ELSE IF char = "}"
  THEN IF st.brace_count - 1 = 0 /\ strip(Append(st.current_obj, char)) # <<>>
       THEN [st EXCEPT !.objects = Append(@, strip(Append(st.current_obj, char))),
                       !.current_obj = <<>>, !.brace_count = 0]
       ELSE [st EXCEPT !.current_obj = Append(@, char), !.brace_count = @ - 1]
  ELSE IF st.brace_count > 0
  THEN [st EXCEPT !.current_obj = Append(@, char)]
  ELSE IF ~IsSpace(char)
  THEN [st EXCEPT !.current_obj = Append(@, char)]
  ELSE st

\* The loop over the characters lo..hi of the file, in order, from state st
\* (the range is halved to keep the evaluation shallow).
RECURSIVE scan(_, _, _, _)
scan(content, lo, hi, st) ==
  IF lo > hi THEN st
  ELSE IF lo = hi THEN scan_char(st, content[lo])
  ELSE With(scan(content, lo, (lo + hi) \div 2, st),
            LAMBDA half : scan(content, (lo + hi) \div 2 + 1, hi, half))

\* _extract_json_objects: the texts of the top-level objects of the file.
extract_json_objects(content) ==
  scan(content, 1, Len(content), ScanInit).objects

DecodeError == [kind |-> "decode_error"]
ParseFail == [ok |-> FALSE]

RECURSIVE skip_ws(_, _)
skip_ws(s, i) == IF i <= Len(s) /\ IsSpace(s[i]) THEN skip_ws(s, i + 1) ELSE i

\* The string literal whose opening quote is before position i: its value
\* with the escapes undone, and the position after its closing quote. A raw
\* newline inside a literal and an unknown escape are rejected.
RECURSIVE loads_string(_, _, _)
loads_string(s, i, acc) ==
  IF i > Len(s) THEN ParseFail
  ELSE IF s[i] = Quote THEN [ok |-> TRUE, value |-> Str(acc), next |-> i + 1]
  ELSE IF s[i] = Newline THEN ParseFail
  ELSE IF s[i] # Backslash THEN loads_string(s, i + 1, Append(acc, s[i]))
  ELSE IF i + 1 > Len(s) THEN ParseFail
  ELSE IF s[i + 1] \in {Quote, Backslash}
  THEN loads_string(s, i + 2, Append(acc, s[i + 1]))
  ELSE IF s[i + 1] = "n" THEN loads_string(s, i + 2, Append(acc, Newline))
  ELSE ParseFail

NumberTexts == {ToString(n) : n \in 0..300}

\* A value of the object: a string literal or a number.
loads_value(s, i) ==
  IF i > Len(s) THEN ParseFail
  ELSE IF s[i] = Quote THEN loads_string(s, i + 1, <<>>)
  ELSE IF s[i] \in NumberTexts
  THEN [ok |-> TRUE,
        value |-> Num(CHOOSE n \in 0..300 : ToString(n) = s[i]),
        next |-> i + 1]
  ELSE ParseFail

\* The members of an object from position i (after the brace or a comma) to
\* the closing brace, added to items.
RECURSIVE loads_members(_, _, _)
loads_members(s, i, items) ==
  With(skip_ws(s, i), LAMBDA k0 :
    IF k0 > Len(s) \/ s[k0] # Quote THEN ParseFail
    ELSE With(loads_string(s, k0 + 1, <<>>), LAMBDA key :
      IF ~key.ok THEN ParseFail
      ELSE With(skip_ws(s, key.next), LAMBDA c0 :
        IF c0 > Len(s) \/ s[c0] # ":" THEN ParseFail
        ELSE With(loads_value(s, skip_ws(s, c0 + 1)), LAMBDA val :
          IF ~val.ok THEN ParseFail
          ELSE With(skip_ws(s, val.next), LAMBDA e0 :
            IF e0 > Len(s) THEN ParseFail
            ELSE IF s[e0] = ","
            THEN loads_members(s, e0 + 1,
                               Append(items, <<key.value.str, val.value>>))
            ELSE IF s[e0] = "}"
            THEN [ok |-> TRUE,
                  value |-> Append(items, <<key.value.str, val.value>>),
                  next |-> e0 + 1]
            ELSE ParseFail)))))

\* json.loads on the text of one object: the dictionary as its items in
\* document order, or a decode error (text before the brace, a malformed
\* member, text after the closing brace). Only the JSON the writer produces
\* is covered: one object whose values are strings and numbers.
json_loads(s) ==
  With(skip_ws(s, 1), LAMBDA b0 :
    IF b0 > Len(s) \/ s[b0] # "{" THEN DecodeError
    ELSE With(skip_ws(s, b0 + 1), LAMBDA m0 :
      IF m0 <= Len(s) /\ s[m0] = "}"
      THEN IF skip_ws(s, m0 + 1) > Len(s)
           THEN [kind |-> "dict", items |-> <<>>] ELSE DecodeError
      ELSE With(loads_members(s, b0 + 1, <<>>), LAMBDA r :
        IF r.ok /\ skip_ws(s, r.next) > Len(s)
        THEN [kind |-> "dict", items |-> r.value] ELSE DecodeError)))

\* The dictionaries _load_from_parsed_events gets from a file: the objects
\* json.loads rejects are passed over.
RECURSIVE loads_all(_)
loads_all(objs) ==
  IF objs = <<>> THEN <<>>
  ELSE With(json_loads(Head(objs)), LAMBDA data :
         (IF data = DecodeError THEN <<>> ELSE <<data>>)
           \o loads_all(Tail(objs)))

\* dict item access: the value stored last under the key (a string, as its
\* characters), NoneR if absent.
RECURSIVE dict_get(_, _, _)
dict_get(items, key, i) ==
  IF i = 0 THEN NoneR
  ELSE IF items[i][1] = key THEN items[i][2]
  ELSE dict_get(items, key, i - 1)

DictKeys(items) == {items[i][1] : i \in 1..Len(items)}

\* The events of the sink harness: the title ranges over every string of up
\* to MaxStrLen characters, the description over strings that look like
\* objects, escapes and literals.
SinkDescriptions ==
  {<<"a">>, <<"}", "{">>, <<Backslash, Quote, "{">>, <<"{", Quote, "}">>}

SinkEvent(title, description) ==
  EventData(Str(title), Str(<<"a">>), Str(<<"a">>), Str(<<"{", "a", "}">>),
            Str(description), Str(<<"a">>), Str(<<Backslash>>),
            Num(RefinedConfidence))

SinkEvents ==
  {SinkEvent(t, d) : t \in StringsUpTo(MaxStrLen), d \in SinkDescriptions}

SecondEvents ==
  {SinkEvent(<<Quote>>, <<"}", "{">>), SinkEvent(<<"{">>, <<"a">>),
   [SinkEvent(<<>>, <<Backslash, Quote, "{">>) EXCEPT !.confidence = Num(0)]}

SinkInit ==
  /\ NoRun
  /\ seen_messages = {}
  /\ ext = ExtractorInit(USE_LLM)
  /\ files = [c \in ChannelNames |-> <<>>]
  /\ cfg = [max_retries |-> PARSER_MAX_RETRIES,
            retry_delay |-> PARSER_RETRY_DELAY]
  /\ calls = 0
  /\ \E e1 \in SinkEvents :
       \/ last = [op |-> "events", events |-> <<e1>>, failed_at |-> 0]
       \/ \E e2 \in SecondEvents :
            last = [op |-> "events", events |-> <<e1, e2>>, failed_at |-> 0]
  /\ fetch = NoFetch

\* _save_results writes the events file of a channel.
SaveEventsFile ==
  /\ last.op = "events"
  /\ last' = [op |-> "saved", events |-> last.events,
              content |-> events_jsonl(last.events), failed_at |-> 0]
  /\ calls' = calls + 1
  /\ UNCHANGED <<channels, pc, attempt, result, outcome, sem, seen_messages,
                 ext, files, statistics, mainpc, cfg, fetch>>

\* _load_from_parsed_events reads the file back.
LoadEventsFile ==
  /\ last.op = "saved"
  /\ \E objs \in {extract_json_objects(last.content)} :
       last' = [op |-> "loaded", events |-> last.events,
                content |-> last.content, objects |-> objs,
                loaded |-> loads_all(objs), failed_at |-> 0]
  /\ calls' = calls + 1
  /\ UNCHANGED <<channels, pc, attempt, result, outcome, sem, seen_messages,
                 ext, files, statistics, mainpc, cfg, fetch>>

SinkNext ==
  \/ SaveEventsFile
  \/ LoadEventsFile

SpecSink == SinkInit /\ [][SinkNext]_vars

\* The dictionary read back has the fields of the event, each with the
\* event's value.
SameFields(data, event) ==
  /\ DictKeys(data.items) = {<<EventKeys[i]>> : i \in 1..Len(EventKeys)}
  /\ \A i \in 1..Len(EventKeys) :
       dict_get(data.items, <<EventKeys[i]>>, Len(data.items))
         = event[EventKeys[i]]

\* C21: a file of N events is read back as N dictionaries, in written order,
\* each equal field by field (title, date, time, location, description,
\* category, telegram_url, confidence) to the event written, also when the
\* strings hold braces, quotes, backslashes or newlines.
C21_RoundTrip ==
  last.op = "loaded" =>
    /\ Len(last.loaded) = Len(last.events)
    /\ \A i \in 1..Len(last.events) :
         SameFields(last.loaded[i], last.events[i])

\* A file of two events was read back, the first with a brace, a quote or a
\* backslash in its title and the second with a brace in its description.
C21_Witness ==
  /\ last.op = "loaded"
  /\ Len(last.events) = 2
  /\ Len(last.loaded) = 2
  /\ \E i \in 1..Len(last.events[1].title.str) :
       last.events[1].title.str[i] \in {"{", "}", Quote, Backslash}
  /\ \E i \in 1..Len(last.events[2].description.str) :
       last.events[2].description.str[i] = "{"

(* ------------- the refinement's answer merged into the draft ----------- *)
\* Every JSON object the model can answer with, by what it holds under each
\* key the prompt asks for: nothing ("absent"), a value that is not a string
\* ("null") or a string.
RefineKeys == <<"title", "date", "time", "location", "description">>

JsonObjects ==
  [kind : {"json"}, title : {"absent", "null", "llm:title"},
   date : {"absent", "null", "llm:date"},
   time : {"absent", "null", "llm:time"},
   location : {"absent", "null", "llm:location"},
   description : {"absent", "null", "llm:description"}]

MergeResponses == JsonObjects \cup {RespEmpty, RespNoJson, RespInvalid}

MergeTexts == {TextLecture, TextConcert}

MergeInit ==
  /\ NoRun
  /\ seen_messages = {}
  /\ ext = ExtractorInit(USE_LLM)
  /\ files = [c \in ChannelNames |-> <<>>]
  /\ cfg = [max_retries |-> PARSER_MAX_RETRIES,
            retry_delay |-> PARSER_RETRY_DELAY]
  /\ calls = 0
  /\ last \in [op : {"draft"}, text : MergeTexts, resp : MergeResponses,
               failed_at : {0}]
  /\ fetch = NoFetch

\* _refine_with_llm is called with the draft of the text; the model loads
\* or fails to load, and answers resp when it is asked.
RefineDraft ==
  /\ last.op = "draft"
  /\ \E loadOK \in BOOLEAN :
       \E r \in {refine_with_llm(ext, last.text, HeuristicInfo(last.text),
                                 loadOK, last.resp)} :
           /\ ext' = r.ext
           /\ last' = [op |-> "refined", text |-> last.text,
                       info |-> HeuristicInfo(last.text),
                       resp |-> last.resp, ret |-> r.ret,
                       failed_at |-> IF r.ext.llm_error THEN 1 ELSE 0]
  /\ calls' = calls + 1
  /\ UNCHANGED <<channels, pc, attempt, result, outcome, sem, seen_messages,
                 files, statistics, mainpc, cfg, fetch>>

MergeNext == RefineDraft

SpecMerge == MergeInit /\ [][MergeNext]_vars

\* The model was loaded and answered with a JSON object.
AnsweredJson ==
  last.op = "refined" /\ ext.llm_loaded /\ last.resp.kind = "json"

MissingKeys(resp) ==
  {i \in 1..Len(RefineKeys) : resp[RefineKeys[i]] = "absent"}

\* C22: refine returns null when the JSON object of the response lacks any
\* of the keys title, date, time, location, description.
C22_MissingKeyYieldsNull ==
  (AnsweredJson /\ MissingKeys(last.resp) # {}) => last.ret = NoneR

\* The model answered with an object that has a date and no other key, and
\* refine returned a record.
C22_Witness ==
  /\ AnsweredJson
  /\ last.resp = JsonPartial
  /\ last.ret # NoneR
  /\ last.ret.date = "llm:date"
  /\ last.ret.title = last.info.title


\* A value of the answer that is present and a string.
WellFormed(value) == value \notin {"absent", "null"}

MergedFields == {"title", "date", "time", "location"}

\* C23: in a refined record each of title, date, time and location is the
\* answer's value when the answer supplies it well-formed and the draft's
\* value otherwise, and the category is the draft's.
C23_MergeFieldByField ==
  (last.op = "refined" /\ last.ret # NoneR) =>
    /\ \A f \in MergedFields :
         last.ret[f] = IF WellFormed(last.resp[f]) THEN last.resp[f]
                       ELSE last.info[f]
    /\ last.ret.category = last.info.category

\* A refined record whose date is the null of the answer, not the draft's
\* date.
C23_Witness ==
  /\ AnsweredJson
  /\ last.resp.date = "null"
  /\ last.resp.title = "llm:title"
  /\ last.ret # NoneR
  /\ last.ret.date = "null"
  /\ last.ret.date # last.info.date
  /\ last.ret.category = last.info.category

(* --------------- the field extractors on the text's matches ------------ *)
\* A text is a sequence of words separated by spaces, a word a sequence of
\* letter groups: the word for the day after tomorrow is the word for
\* tomorrow with a prefix. The words stand for the Russian ones of the
\* source (zavtra: tomorrow, segodnya: today, poslezavtra: the day after
\* tomorrow, lekciya: a word that is no date).
Zavtra == <<"zavtra">>
Segodnya == <<"segodnya">>
Poslezavtra == <<"posle", "zavtra">>
Lekciya == <<"lekciya">>
RelativeWords == {Zavtra, Segodnya, Poslezavtra}

RECURSIVE JoinWords(_)
JoinWords(words) ==
  IF words = <<>> THEN <<>>
  ELSE IF Len(words) = 1 THEN Head(words)
  ELSE Head(words) \o <<" ">> \o JoinWords(Tail(words))

\* Python's `word in text`: the word occurs somewhere in the text.
Contains(text, word) ==
  \E i \in 1..Len(text) :
    /\ i + Len(word) - 1 <= Len(text)
    /\ SubSeq(text, i, i + Len(word) - 1) = word

\* The calendar of datetime.
IsLeap(y) == (y % 4 = 0 /\ y % 100 # 0) \/ y % 400 = 0

DaysInMonth(m, y) ==
  IF m = 2 THEN (IF IsLeap(y) THEN 29 ELSE 28)
  ELSE IF m \in {4, 6, 9, 11} THEN 30 ELSE 31

NextDay(date) ==
  IF date.d < DaysInMonth(date.m, date.y) THEN [date EXCEPT !.d = @ + 1]
  ELSE IF date.m < 12 THEN [d |-> 1, m |-> date.m + 1, y |-> date.y]
  ELSE [d |-> 1, m |-> 1, y |-> date.y + 1]

\* date + timedelta(days=n)
RECURSIVE AddDays(_, _)
AddDays(date, n) == IF n = 0 THEN date ELSE AddDays(NextDay(date), n - 1)

\* The zone Europe/Moscow is three hours ahead of UTC the whole year.
MoscowOffset == 3

\* datetime.now(self.moscow_tz) at the instant clock (a UTC date and hour).
moscow_now(clock) ==
  IF clock.hour + MoscowOffset >= 24
  THEN [date |-> NextDay(clock.date), hour |-> clock.hour + MoscowOffset - 24]
  ELSE [date |-> clock.date, hour |-> clock.hour + MoscowOffset]

Digits2(n) == <<ToString((n \div 10) % 10), ToString(n % 10)>>

\* strftime('%d.%m.%Y')
strftime(date) ==
  Digits2(date.d) \o <<".">> \o Digits2(date.m) \o <<".">>
    \o Digits2(date.y \div 100) \o Digits2(date.y % 100)

NoDate == <<>>

\* The first part of extract_date: the relative words, in the order the
\* code tests them.
relative_date(text, clock) ==
  IF Contains(text, Zavtra)
  THEN strftime(AddDays(moscow_now(clock).date, 1))
  ELSE IF Contains(text, Segodnya)
  THEN strftime(moscow_now(clock).date)
  ELSE IF Contains(text, Poslezavtra)
  THEN strftime(AddDays(moscow_now(clock).date, 2))
  ELSE NoDate

\* One of the three tests for a relative word succeeds.
has_relative(text) ==
  Contains(text, Zavtra) \/ Contains(text, Segodnya)
    \/ Contains(text, Poslezavtra)

\* A cascade that tries the numeric date before the relative words.
date_class_numeric_first(t) ==
  IF t.numeric = "valid" THEN "numeric"
  ELSE IF has_relative(JoinWords(t.words)) THEN "relative"
  ELSE IF t.short = "valid" THEN "short"
  ELSE IF t.named = "valid" THEN "named"
  ELSE "none"

\* The pattern class extract_date returns on. numeric, short and named say
\* whether the first match of the class's pattern exists and whether
\* datetime(year, month, day) accepts it ("none", "valid", "invalid"): an
\* invalid date passes on to the next class.
date_class(t) ==
  IF has_relative(JoinWords(t.words)) THEN "relative"
  ELSE IF t.numeric = "valid" THEN "numeric"
  ELSE IF t.short = "valid" THEN "short"
  ELSE IF t.named = "valid" THEN "named"
  ELSE "none"

\* The pattern class extract_time returns on: range says whether the range
\* pattern matches, single is the first HH:MM match (its two groups as
\* numbers) or NoneR, dayparts the day-part words in the text. int(hour) and
\* int(minute) never raise on digits.
time_class(t) ==
  IF t.range THEN "range"
  ELSE IF t.single # NoneR THEN "single"
  ELSE IF t.dayparts # {} THEN "daypart"
  ELSE "none"

\* f"{hour.zfill(2)}:{minute}"
single_time(t) ==
  Digits2(t.single.hour) \o <<":">> \o Digits2(t.single.minute)

\* The pattern class extract_location returns on, from what the text holds:
\* a platform name, a word for online, a room pattern, a venue keyword, the
\* institution's name.
location_class(t) ==
  IF t.platform THEN "platform"
  ELSE IF t.online THEN "online"
  ELSE IF t.room THEN "room"
  ELSE IF t.venue THEN "venue"
  ELSE IF t.polytech THEN "polytech"
  ELSE "none"

\* The texts of the harness. A text in which DD.MM.YYYY matches also has a
\* DD.MM match (inside the year at the latest).
WordLists ==
  {<<>>} \cup {<<w>> : w \in RelativeWords \cup {Lekciya}}
    \cup {<<v, w>> : v, w \in RelativeWords \cup {Lekciya}}

MatchStates == {"none", "valid", "invalid"}

DateTexts ==
  {t \in [words : WordLists, numeric : MatchStates, short : MatchStates,
          named : MatchStates] : t.numeric # "none" => t.short # "none"}

SingleTimes ==
  {NoneR} \cup [hour : {0, 9, 23, 24, 25, 99}, minute : {0, 59, 60, 99}]

DayParts == {"morning", "afternoon", "evening", "night"}

TimeTexts ==
  [range : BOOLEAN, single : SingleTimes, dayparts : SUBSET DayParts]

LocationTexts ==
  [platform : BOOLEAN, online : BOOLEAN, room : BOOLEAN, venue : BOOLEAN,
   polytech : BOOLEAN]

\* The number of keywords of each category found in the text.
CategoryTexts == [catHits : [1..Len(Categories) -> 0..MaxHits]]

Day(d, m, y) == [d |-> d, m |-> m, y |-> y]

\* The instants (UTC date and hour) at which the extractor is called.
Clocks ==
  {[date |-> Day(24, 12, 2024), hour |-> 6],
   [date |-> Day(30, 12, 2024), hour |-> 12],
   [date |-> Day(31, 12, 2024), hour |-> 22],
   [date |-> Day(28, 2, 2024), hour |-> 10],
   [date |-> Day(27, 2, 2025), hour |-> 10],
   [date |-> Day(30, 4, 2025), hour |-> 20]}

FieldsInit ==
  /\ NoRun
  /\ seen_messages = {}
  /\ ext = ExtractorInit(USE_LLM)
  /\ files = [c \in ChannelNames |-> <<>>]
  /\ cfg = [max_retries |-> PARSER_MAX_RETRIES,
            retry_delay |-> PARSER_RETRY_DELAY]
  /\ calls = 0
  /\ \/ last \in [op : {"text"}, field : {"date"}, text : DateTexts,
                  clock : Clocks, failed_at : {0}]
     \/ last \in [op : {"text"}, field : {"time"}, text : TimeTexts,
                  failed_at : {0}]
     \/ last \in [op : {"text"}, field : {"location"}, text : LocationTexts,
                  failed_at : {0}]
     \/ last \in [op : {"text"}, field : {"category"}, text : CategoryTexts,
                  failed_at : {0}]
  /\ fetch = NoFetch

\* extract_date is called: cls is the class it returns on, ret the class's
\* value and confidence, date the date string of a relative word.
ExtractDate ==
  /\ last.op = "text" /\ last.field = "date"
  /\ last' = [op |-> "date", text |-> last.text, clock |-> last.clock,
              cls |-> date_class(last.text),
              ret |-> extract_date([dateCls |-> date_class(last.text)]),
              date |-> relative_date(JoinWords(last.text.words), last.clock),
              failed_at |-> 0]
  /\ calls' = calls + 1
  /\ UNCHANGED <<channels, pc, attempt, result, outcome, sem, seen_messages,
                 ext, files, statistics, mainpc, cfg, fetch>>

\* extract_time is called; time is the string of a single HH:MM.
ExtractTime ==
  /\ last.op = "text" /\ last.field = "time"
  /\ last' = [op |-> "time", text |-> last.text,
              cls |-> time_class(last.text),
              ret |-> extract_time([timeCls |-> time_class(last.text)]),
              time |-> IF time_class(last.text) = "single"
                       THEN single_time(last.text) ELSE <<>>,
              failed_at |-> 0]
  /\ calls' = calls + 1
  /\ UNCHANGED <<channels, pc, attempt, result, outcome, sem, seen_messages,
                 ext, files, statistics, mainpc, cfg, fetch>>

\* extract_location is called.
ExtractLocation ==
  /\ last.op = "text" /\ last.field = "location"
  /\ last' = [op |-> "location", text |-> last.text,
              cls |-> location_class(last.text),
              ret |-> extract_location([locCls |-> location_class(last.text)]),
              failed_at |-> 0]
  /\ calls' = calls + 1
  /\ UNCHANGED <<channels, pc, attempt, result, outcome, sem, seen_messages,
                 ext, files, statistics, mainpc, cfg, fetch>>

\* extract_category is called.
ExtractCategory ==
  /\ last.op = "text" /\ last.field = "category"
  /\ last' = [op |-> "category", text |-> last.text,
              ret |-> extract_category(last.text), failed_at |-> 0]
  /\ calls' = calls + 1
  /\ UNCHANGED <<channels, pc, attempt, result, outcome, sem, seen_messages,
                 ext, files, statistics, mainpc, cfg, fetch>>

FieldsNext ==
  \/ ExtractDate
  \/ ExtractTime
  \/ ExtractLocation
  \/ ExtractCategory

SpecFields == FieldsInit /\ [][FieldsNext]_vars

\* The relative words that are words of the text.
RelativeWordsOf(words) ==
  {words[i] : i \in 1..Len(words)} \cap RelativeWords

DaysAhead(word) ==
  IF word = Segodnya THEN 0 ELSE IF word = Zavtra THEN 1 ELSE 2

ResolvedAsStated ==
  /\ \A w \in RelativeWordsOf(last.text.words) :
       last.date = strftime(AddDays(moscow_now(last.clock).date,
                                    DaysAhead(w)))
  /\ last.ret.conf = 95

\* C24: a text with one relative term gets the current Moscow date for
\* today, that date plus one day for tomorrow and plus two days for the day
\* after tomorrow, with confidence 0.95.
C24_RelativeDates ==
  (last.op = "date" /\ Cardinality(RelativeWordsOf(last.text.words)) = 1)
    => ResolvedAsStated

\* Today and tomorrow are resolved as C24 says, across the ends of months
\* and years and across midnight in Moscow.
C24_TodayAndTomorrow ==
  (last.op = "date"
     /\ RelativeWordsOf(last.text.words) \in {{Zavtra}, {Segodnya}})
    => ResolvedAsStated

\* On 30.12.2024 in Moscow a text whose only relative term is the day after
\* tomorrow gets 31.12.2024, the date of tomorrow.
C24_Witness ==
  /\ last.op = "date"
  /\ last.text.words = <<Poslezavtra>>
  /\ moscow_now(last.clock).date = Day(30, 12, 2024)
  /\ last.date = <<"3", "1", ".", "1", "2", ".", "2", "0", "2", "4">>
  /\ last.ret.conf = 95

(* ------------------------- waiting for a slot -------------------------- *)
Waiting == {i \in Tasks : pc[i] = "new"}

\* C25: the slots taken and the slots free always add up to the limit, a
\* channel that has been admitted never waits again, and under fair
\* scheduling the time comes when no channel waits for a slot: every channel
\* that waited has been admitted.
C25_WaitingIsAdmitted ==
  /\ [](sem + Cardinality(InFlight) = SemaphoreLimit)
  /\ [][Waiting' \subseteq Waiting]_vars
  /\ <>(Waiting = {})

\* The last channel of a full list holds a slot that a pipeline released on
\* an exception, after pipelines that ended on a failed fetch and on an
\* empty channel.
C25_Witness ==
  /\ Len(channels) = MaxChannels
  /\ pc[MaxChannels] = "get"
  /\ WithOutcome({"raised"}) # {}
  /\ WithOutcome({"fetch_failed"}) # {}
  /\ WithOutcome({"empty"}) # {}

(* --------------- finding the JSON object in the response --------------- *)
\* A response as the pattern of _refine_with_llm sees it: opening braces,
\* closing braces and other characters ("a").
ResponseChars == {"{", "}", "a"}

RECURSIVE ResponsesUpTo(_)
ResponsesUpTo(n) ==
  IF n = 0 THEN {<<>>}
  ELSE With(ResponsesUpTo(n - 1),
            LAMBDA shorter :
              shorter \cup {Append(s, c) : s \in shorter, c \in ResponseChars})

\* [^{}]* from position i: the position after the run of other characters.
RECURSIVE skip_plain(_, _)
skip_plain(s, i) ==
  IF i <= Len(s) /\ s[i] \notin {"{", "}"} THEN skip_plain(s, i + 1) ELSE i

\* (?:\{[^{}]*\}[^{}]*)*\} from position i, which follows a run of other
\* characters: the position of the closing brace that ends the match, 0 if
\* there is no match. The next character decides between one more group and
\* the end, so there is nothing to backtrack to.
RECURSIVE match_groups(_, _)
match_groups(s, i) ==
  IF i > Len(s) THEN 0
  ELSE IF s[i] = "}" THEN i
  ELSE With(skip_plain(s, i + 1), LAMBDA j :
         IF j <= Len(s) /\ s[j] = "}"
         THEN match_groups(s, skip_plain(s, j + 1))
         ELSE 0)

\* The pattern \{[^{}]*(?:\{[^{}]*\}[^{}]*)*\} matched at position i.
match_at(s, i) ==
  IF s[i] = "{" THEN match_groups(s, skip_plain(s, i + 1)) ELSE 0

\* re.search: the match at the leftmost position that has one.
re_search(s) ==
  IF \E i \in 1..Len(s) : match_at(s, i) # 0
  THEN With(CHOOSE i \in 1..Len(s) :
              /\ match_at(s, i) # 0
              /\ \A j \in 1..(i - 1) : match_at(s, j) = 0,
            LAMBDA i : [kind |-> "match", start |-> i, end |-> match_at(s, i)])
  ELSE NoneR

SearchInit ==
  /\ NoRun
  /\ seen_messages = {}
  /\ ext = [ExtractorInit(USE_LLM) EXCEPT !.has_llm = TRUE,
                                          !.llm_loaded = TRUE, !.loads = 1]
  /\ files = [c \in ChannelNames |-> <<>>]
  /\ cfg = [max_retries |-> PARSER_MAX_RETRIES,
            retry_delay |-> PARSER_RETRY_DELAY]
  /\ calls = 0
  /\ last \in [op : {"response"}, response : ResponsesUpTo(MaxResponseLen),
               failed_at : {0}]
  /\ fetch = NoFetch

\* The loaded model has answered and _refine_with_llm looks for the object.
SearchJson ==
  /\ last.op = "response"
  /\ ext.llm_loaded
  /\ last' = [op |-> "search", response |-> last.response,
              json_match |-> re_search(last.response), failed_at |-> 0]
  /\ calls' = calls + 1
  /\ UNCHANGED <<channels, pc, attempt, result, outcome, sem, seen_messages,
                 ext, files, statistics, mainpc, cfg, fetch>>

SearchNext == SearchJson

SpecSearch == SearchInit /\ [][SearchNext]_vars

\* Brace matching from the opening brace at i: the position of the brace
\* that closes it, 0 if the text ends before.
RECURSIVE closing_brace(_, _, _)
closing_brace(s, i, depth) ==
  IF i > Len(s) THEN 0
  ELSE IF s[i] = "{" THEN closing_brace(s, i + 1, depth + 1)
  ELSE IF s[i] # "}" THEN closing_brace(s, i + 1, depth)
  ELSE IF depth = 1 THEN i
  ELSE closing_brace(s, i + 1, depth - 1)

Balanced(s, i) == s[i] = "{" /\ closing_brace(s, i + 1, 1) # 0

\* C26: the text extracted from the response starts at the first opening
\* brace that has a matching closing brace and ends at that closing brace,
\* however deep the braces between them are nested; nothing is extracted
\* only when no brace of the response is matched.
C26_FirstBalancedObject ==
  last.op = "search" =>
    IF \E i \in 1..Len(last.response) : Balanced(last.response, i)
    THEN /\ last.json_match # NoneR
         /\ Balanced(last.response, last.json_match.start)
         /\ \A j \in 1..(last.json_match.start - 1) :
              ~Balanced(last.response, j)
         /\ last.json_match.end
              = closing_brace(last.response, last.json_match.start + 1, 1)
    ELSE last.json_match = NoneR

\* Up to one level of nesting the pattern extracts the first balanced
\* object.
C26_OneLevelOfNesting ==
  (last.op = "search"
     /\ \A i \in 1..Len(last.response) :
          Balanced(last.response, i) => match_at(last.response, i) # 0)
    => C26_FirstBalancedObject

\* The response {a{{}}}: braces nested three deep are balanced from the
\* first character on, and the text extracted is the object inside, {{}}.
C26_Witness ==
  /\ last.op = "search"
  /\ last.response = <<"{", "a", "{", "{", "}", "}", "}">>
  /\ Balanced(last.response, 1)
  /\ last.json_match = [kind |-> "match", start |-> 3, end |-> 6]

(* ------------------- the confidence of a refined record ---------------- *)
\* C27: a refined record carries the fixed confidence 0.85 whatever the
\* draft's score, and no record that was not refined carries that value.
C27_RefinedConfidenceDistinct ==
  (last.op = "extract" /\ last.ret # NoneR) =>
    /\ last.refined = "ok" => last.ret.confidence = RefinedConfidence
    /\ last.refined # "ok" => last.ret.confidence # RefinedConfidence

\* A refined record has 0.85 whatever the text's score is.
C27_RefinedIsStamped ==
  (last.op = "extract" /\ last.ret # NoneR /\ last.refined = "ok")
    => last.ret.confidence = RefinedConfidence

\* A record that was not refined, of a text with a numeric date (0.95), a
\* single time (0.90) and the institution's name as the place (0.70): their
\* mean is 0.85.
C27_Witness ==
  /\ last.op = "extract"
  /\ last.ret # NoneR
  /\ last.refined # "ok"
  /\ last.text.dateCls = "numeric"
  /\ last.text.timeCls = "single"
  /\ last.text.locCls = "polytech"
  /\ last.ret.confidence = RefinedConfidence

(* ----------------------- the single time of day ------------------------ *)
InRange(single) == single.hour \in 0..23 /\ single.minute \in 0..59

\* C28: a single HH:MM is returned as the time (confidence 0.90) only when
\* the hour is in 0..23 and the minute in 0..59; on a match out of range
\* the extractor goes on to the day-part words.
C28_SingleTimeInRange ==
  last.op = "time" =>
    /\ last.cls = "single" => InRange(last.text.single)
    /\ (~last.text.range /\ last.text.single # NoneR
          /\ ~InRange(last.text.single))
         => last.cls = IF last.text.dayparts # {} THEN "daypart" ELSE "none"

\* A single time in range is returned with confidence 0.90 when no range
\* matches.
C28_InRangeAccepted ==
  (last.op = "time" /\ ~last.text.range /\ last.text.single # NoneR
     /\ InRange(last.text.single))
    => /\ last.cls = "single"
       /\ last.ret.conf = 90
       /\ last.time = single_time(last.text)

\* The text has 25:99 and a day-part word, and 25:99 is returned with
\* confidence 0.90.
C28_Witness ==
  /\ last.op = "time"
  /\ ~last.text.range
  /\ last.text.single = [hour |-> 25, minute |-> 99]
  /\ last.text.dayparts = {"evening"}
  /\ last.cls = "single"
  /\ last.time = <<"2", "5", ":", "9", "9">>
  /\ last.ret.conf = 90

(* ------------------ the priority order of the classes ------------------ *)
DatePriority == <<"relative", "numeric", "short", "named">>
TimePriority == <<"range", "single", "daypart">>
LocationPriority == <<"platform", "online", "room", "venue", "polytech">>

\* The classes whose pattern matches the text and, for dates, whose match
\* is a date of the calendar.
DateMatches(t) ==
  (IF \E i \in 1..Len(t.words) : t.words[i] \in RelativeWords
   THEN {"relative"} ELSE {})
    \cup (IF t.numeric = "valid" THEN {"numeric"} ELSE {})
    \cup (IF t.short = "valid" THEN {"short"} ELSE {})
    \cup (IF t.named = "valid" THEN {"named"} ELSE {})

TimeMatches(t) ==
  (IF t.range THEN {"range"} ELSE {})
    \cup (IF t.single # NoneR THEN {"single"} ELSE {})
    \cup (IF t.dayparts # {} THEN {"daypart"} ELSE {})

LocationMatches(t) ==
  {c \in {"platform", "online", "room", "venue", "polytech"} : t[c]}

FirstMatching(priority, matches) ==
  IF \A i \in 1..Len(priority) : priority[i] \notin matches THEN "none"
  ELSE priority[CHOOSE i \in 1..Len(priority) :
                  /\ priority[i] \in matches
                  /\ \A j \in 1..(i - 1) : priority[j] \notin matches]

\* The confidence constant of each class, in 1/100.
ClassConfidence ==
  [date |-> [relative |-> 95, numeric |-> 95, short |-> 85, named |-> 90,
             none |-> 0],
   time |-> [range |-> 95, single |-> 90, daypart |-> 70, none |-> 0],
   location |-> [platform |-> 95, online |-> 90, room |-> 90, venue |-> 85,
                 polytech |-> 70, none |-> 0]]

ExpectedClass ==
  IF last.op = "date"
  THEN FirstMatching(DatePriority, DateMatches(last.text))
  ELSE IF last.op = "time"
  THEN FirstMatching(TimePriority, TimeMatches(last.text))
  ELSE FirstMatching(LocationPriority, LocationMatches(last.text))

\* C29: each of the three extractors returns on the first class of its
\* priority order that matches (for dates: matches a date of the calendar),
\* with the value and the confidence constant of that class; it returns the
\* unspecified value exactly when no class matches, and its confidence is 0
\* exactly when the value is the unspecified one.
C29_FirstMatchingClass ==
  last.op \in {"date", "time", "location"} =>
    /\ last.cls = ExpectedClass
    /\ last.ret.conf = ClassConfidence[last.op][ExpectedClass]
    /\ last.ret.value = "unspecified" <=> ExpectedClass = "none"
    /\ last.ret.conf = 0 <=> last.ret.value = "unspecified"

\* A text without a relative word whose DD.MM.YYYY match is no date of the
\* calendar and whose DD.MM and named-month matches are: the DD.MM class
\* is returned, with 0.85.
C29_Witness ==
  /\ last.op = "date"
  /\ last.text.words = <<Lekciya>>
  /\ last.text.numeric = "invalid"
  /\ last.text.short = "valid"
  /\ last.text.named = "valid"
  /\ last.cls = "short"
  /\ last.ret = [value |-> "date:short", conf |-> 85]

(* ----------------------------- the category ---------------------------- *)
\* The position of a category in the table.
CategoryIndex(name) == CHOOSE c \in 1..Len(Categories) : Categories[c] = name

\* C30: the category returned has the greatest number of keyword hits, no
\* category declared before it has as many, and without any hit the
\* category is student_life.
C30_MaxHitsFirstDeclared ==
  last.op = "category" =>
    IF \A c \in 1..Len(Categories) : last.text.catHits[c] = 0
    THEN last.ret = "student_life"
    ELSE /\ \A d \in 1..Len(Categories) :
              last.text.catHits[d] <= last.text.catHits[CategoryIndex(last.ret)]
         /\ \A d \in 1..(CategoryIndex(last.ret) - 1) :
              last.text.catHits[d] < last.text.catHits[CategoryIndex(last.ret)]

\* career, culture and student_life tie with the most hits, education has
\* fewer, and career, the first declared of the three, is returned.
C30_Witness ==
  /\ last.op = "category"
  /\ last.text.catHits = [c \in 1..7 |-> IF c \in {2, 5, 7} THEN 2
                                          ELSE IF c = 1 THEN 1 ELSE 0]
  /\ last.ret = "career"

(* --------------------- the sink after a channel run --------------------- *)
\* C31: after a run of the channel that completed with statistics, the
\* events file of the channel holds exactly the events accepted in that run,
\* in processing order, also when the run accepted no event.
C31_SinkHoldsThisRunsEvents ==
  (last.op = "channel" /\ last.stats # NoneR) => files[1] = last.events

\* A run that accepted events leaves exactly these in the events file.
C31_AcceptedEventsReplaceFile ==
  (last.op = "channel" /\ last.stats # NoneR /\ last.events # <<>>) =>
    files[1] = last.events

\* A run completed on new posts none of which is an event, while the file
\* holds the events of an earlier run.
C31_Witness ==
  /\ last.op = "channel"
  /\ last.stats # NoneR
  /\ last.stats.total > 0
  /\ last.events = <<>>
  /\ files[1] # <<>>

(* ------------------------ the counts of a channel ----------------------- *)
\* The posts admitted by the parser in the last run that fail classification.
NotEventLike ==
  {i \in 1..Len(last.messages) : ~is_event_text(last.messages[i].text)}

\* C32: a channel run on admitted posts ends with statistics in which total
\* is the number of admitted posts and equals events + skipped, events is
\* the number of records written, and skipped is the number of posts that
\* fail classification; posts being skipped never makes the run fail.
C32_TotalIsEventsPlusSkipped ==
  (last.op = "channel" /\ last.parsed # <<>>) =>
    /\ last.stats # NoneR
    /\ last.stats.total = Len(last.parsed)
    /\ last.stats.total = last.stats.events + last.stats.skipped
    /\ last.stats.events = Len(last.events)
    /\ last.stats.events = Cardinality(EventLike)
    /\ last.stats.skipped = Cardinality(NotEventLike)

\* A run in which one post became an event and another was skipped.
C32_Witness ==
  /\ last.op = "channel"
  /\ last.stats # NoneR
  /\ last.stats.events > 0
  /\ last.stats.skipped > 0

(* ---------------------- the counts of a fleet run ----------------------- *)
\* The tasks of the run whose result carries statistics.
WithStats == {i \in Tasks : result[i].kind = "stats"}

\* C33: when the run returns, processed + failed = total_channels, the
\* number of channels passed; every task of the list is counted once, in
\* processed when it returned statistics and in failed otherwise; and
\* channels_stats has an entry only under a channel counted as processed,
\* the statistics of the last task of that channel that returned some.
C33_EveryChannelCountedOnce ==
  mainpc = "returned" =>
    /\ statistics.total_channels = Len(channels)
    /\ statistics.processed + statistics.failed = statistics.total_channels
    /\ statistics.processed = Cardinality(WithStats)
    /\ statistics.failed = Cardinality(Tasks \ WithStats)
    /\ \A c \in ChannelNames :
         LET of_c == {i \in WithStats : channels[i] = c}
         IN  IF of_c = {} THEN statistics.channels_stats[c] = NoneR
             ELSE statistics.channels_stats[c] =
                    result[CHOOSE i \in of_c : \A j \in of_c : j <= i]

\* The run has returned with processed and failed channels, and a channel
\* named twice in the list was processed in one task and failed in the other.
C33_Witness ==
  /\ mainpc = "returned"
  /\ channels = <<1, 1>>
  /\ statistics.processed = 1
  /\ statistics.failed = 1
  /\ statistics.channels_stats[1] # NoneR

(* ------------------- the dedup set under interleaving ------------------- *)
\* C34: the pipelines of a run interleave only at their awaits, and the test
\* of a digest and its insertion are in one step of the parse; so a digest is
\* admitted by at most one pipeline: the posts admitted by the pipelines that
\* returned statistics are never more than the digests in the dedup set, and
\* are exactly as many while no pipeline has lost its posts to an exception.
C34_DigestAdmittedOnce ==
  /\ SumOver(WithStats, "total") <= Cardinality(seen_messages)
  /\ WithOutcome({"raised"}) = {} =>
       SumOver(WithStats, "total") = Cardinality(seen_messages)

\* A channel is named twice, both copies held a slot at once, the page of the
\* second copy arrived first and admitted the post, and the first copy then
\* found the same post already in the set.
C34_Witness ==
  /\ channels = <<1, 1>>
  /\ outcome = <<"empty", "ok">>
  /\ result[2].total = 1
  /\ Cardinality(seen_messages) = 1

(* ----------------------- the entries of a batch ------------------------- *)
\* What extract_event_info can return for one post taken alone: nothing for
\* a post that is not event-like, otherwise its heuristic record or a record
\* refined from its own draft by some answer of the model.
OwnResults(text, url) ==
  IF ~is_event_text(text) THEN {NoneR}
  ELSE {HeuristicEvent(text, url)}
         \cup ({refine_with_llm(ExtractorInit(TRUE), text,
                                HeuristicInfo(text), TRUE, resp).ret :
                  resp \in Responses} \ {NoneR})

\* The list process_batch returned has an entry for each post, null exactly
\* for the posts that are not event-like.
BatchShape ==
  /\ Len(last.results) = Len(last.messages)
  /\ \A i \in 1..Len(last.messages) :
       last.results[i] = NoneR <=> ~is_event_text(last.messages[i].text)

\* C35: process_batch returns a list as long as its input whose entry i is
\* the extraction result of post i alone, null exactly when post i is not
\* event-like, also when two posts carry the same permalink.
C35_EntryIsOwnResult ==
  last.op = "channel" =>
    /\ BatchShape
    /\ \A i \in 1..Len(last.messages) :
         last.results[i] \in OwnResults(last.messages[i].text,
                                        last.messages[i].url)

\* The same statement for the batches whose posts have permalinks of their
\* own.
C35_OwnResultUnderDistinctPermalinks ==
  (last.op = "channel" /\ PermalinksDistinct) =>
    /\ BatchShape
    /\ \A i \in 1..Len(last.messages) :
         last.results[i] \in OwnResults(last.messages[i].text,
                                        last.messages[i].url)

\* Two event-like posts of one batch share a permalink, and the entry of the
\* first is a record made from the second.
C35_Witness ==
  /\ last.op = "channel"
  /\ Len(last.messages) = 2
  /\ last.messages[1].url = last.messages[2].url
  /\ last.messages[1].text = TextLecture
  /\ last.results[1] = last.results[2]
  /\ last.results[1] \in OwnResults(TextConcert, last.messages[2].url)
  /\ last.results[1] \notin OwnResults(TextLecture, last.messages[1].url)

(* ----------------------- blocks the parser skips ------------------------ *)
\* A block with a readable time not before the cutoff, a text of at least
\* ten characters and a permalink.
Admissible(div) ==
  /\ div.ts \notin {NoTime, BadTime}
  /\ div.ts >= Cutoff
  /\ div.text.len >= MinTextLen
  /\ div.url # ""

\* The blocks of the last run's page that the parser has to skip.
SkippedBlocks ==
  IF last.html = NoneR THEN {}
  ELSE {k \in 1..Len(last.html.blocks) : ~Admissible(last.html.blocks[k])}

\* C36: a block without time tag, text or permalink, with a text shorter
\* than ten characters, older than the cutoff or failing in the loop body is
\* skipped and the parse returns its list: no such block is among the
\* admitted posts, and every admissible block of the page, wherever it
\* stands, is admitted unless its digest was seen before.
C36_SkippedBlocksDoNotStopParse ==
  (last.op = "channel" /\ last.html # NoneR) =>
    /\ \A n \in 1..Len(last.parsed) :
         \E k \in 1..Len(last.html.blocks) :
           /\ Admissible(last.html.blocks[k])
           /\ last.parsed[n] =
                TelegramMessage(last.html.blocks[k].text,
                                last.html.blocks[k].ts,
                                last.html.blocks[k].url, 1)
    /\ \A k \in 1..Len(last.html.blocks) :
         LET div == last.html.blocks[k]
             h == generate_message_hash(
                    TelegramMessage(div.text, div.ts, div.url, 1))
         IN  (Admissible(div) /\ h \notin last.seen_before) =>
               \E n \in 1..Len(last.parsed) :
                 generate_message_hash(last.parsed[n]) = h

\* The page began with six blocks to skip, one of each kind, and the post
\* after them was admitted and became an event.
C36_Witness ==
  /\ last.op = "channel"
  /\ last.html # NoneR
  /\ SkippedBlocks = 1..6
  /\ Len(last.parsed) = 1
  /\ last.parsed[1].url = "u15"
  /\ last.stats # NoneR
  /\ last.stats.events = 1

(* --------------------------- the lazy load ------------------------------ *)
\* C37: constructing the extractor loads nothing; a load is attempted only
\* in a run with refinement enabled whose posts include an event-like one;
\* and an extractor disabled by configuration never attempts a load.
C37_ModelLoadedLazily ==
  /\ [](calls = 0 => ext.loads = 0)
  /\ [][ext'.loads # ext.loads =>
          /\ ext.use_llm
          /\ last'.op = "channel"
          /\ \E i \in 1..Len(last'.messages) :
               is_event_text(last'.messages[i].text)]_vars
  /\ []((~ext.use_llm /\ ~ext.llm_error) => ext.loads = 0)

\* With refinement enabled a run has processed a post that is not
\* event-like, and no load has been attempted.
C37_Witness ==
  /\ calls = 1
  /\ last.op = "channel"
  /\ last.messages # <<>>
  /\ EventLike = {}
  /\ ext.use_llm
  /\ ext.loads = 0

(* ----------------------- the add-event dialogue ------------------------- *)
\* AddEvent: the states of the dialogue in the order of its steps; "none" is
\* the cleared state.
AddEvent ==
  <<"waiting_for_title", "waiting_for_date", "waiting_for_time",
    "waiting_for_place", "waiting_for_description", "waiting_for_category">>

\* The key update_data stores at each of the first five steps.
DataKeys == <<"title", "date", "time", "place", "description">>

\* The FSM data of the chat: 0 under a key that is not stored, otherwise the
\* number of the dialogue in which the value was entered.
NoData == [k \in 1..Len(DataKeys) |-> 0]

\* A message of the user: ok is the verdict of the step's Validator method
\* on its text.
Texts == [ok : BOOLEAN]

\* The chat after a handler has run: state and data of the FSM context, the
\* events of the manager, the number of dialogues started, whether a message
\* with the category keyboard has been sent, and the handler that ran.
Chat(state, data, events, started, keyboard, handler, ok) ==
  [op |-> "dialogue", state |-> state, data |-> data, events |-> events,
   started |-> started, keyboard |-> keyboard, handler |-> handler,
   ok |-> ok, failed_at |-> 0]

DialogueInit ==
  /\ NoRun
  /\ seen_messages = {}
  /\ ext = ExtractorInit(USE_LLM)
  /\ files = [c \in ChannelNames |-> <<>>]
  /\ cfg = [max_retries |-> PARSER_MAX_RETRIES,
            retry_delay |-> PARSER_RETRY_DELAY]
  /\ calls = 0
  /\ last = Chat("none", NoData, <<>>, 0, FALSE, "none", TRUE)
  /\ fetch = NoFetch

DialogueStays ==
  UNCHANGED <<channels, pc, attempt, result, outcome, sem, seen_messages,
              ext, files, statistics, mainpc, cfg, calls, fetch>>

\* handle_add_event, handle_start_add_from_text, cmd_add: the state is set
\* to waiting_for_title; set_state leaves the data as it is. The handlers
\* are registered without a state filter.
handle_add_event ==
  /\ last.started < MaxDialogues
  /\ last' = Chat(AddEvent[1], last.data, last.events, last.started + 1,
                  last.keyboard, "add_event", TRUE)
  /\ DialogueStays

\* process_title .. process_description, registered for the state of step k:
\* an invalid text is answered and nothing is stored; a valid one is stored
\* and the state set to the next. process_description then sends the
\* preview with the category keyboard.
process_step(k) ==
  /\ last.op = "dialogue"
  /\ last.state = AddEvent[k]
  /\ \E text \in Texts :
       last' = IF ~text.ok
               THEN [last EXCEPT !.handler = DataKeys[k], !.ok = FALSE]
               ELSE Chat(AddEvent[k + 1],
                         [last.data EXCEPT ![k] = last.started],
                         last.events, last.started,
                         last.keyboard \/ k = Len(DataKeys),
                         DataKeys[k], TRUE)
  /\ DialogueStays

\* handle_add_category: data[key] raises KeyError when a field is missing
\* and the handler ends there; otherwise the event is added and saved and
\* the context cleared. The event is kept with the state it was added in.
add_category(chat) ==
  IF \E k \in 1..Len(DataKeys) : chat.data[k] = 0
  THEN [chat EXCEPT !.handler = "category", !.ok = FALSE]
  ELSE Chat("none", NoData,
            Append(chat.events, [data |-> chat.data, state |-> chat.state]),
            chat.started, chat.keyboard, "category", TRUE)

\* A button of a category keyboard in the chat is pressed. The callback is
\* registered on the button's data alone, without a state filter.
handle_add_category ==
  /\ last.op = "dialogue"
  /\ last.keyboard
  /\ Len(last.events) < MaxAdded
  /\ last' = add_category(last)
  /\ DialogueStays

\* The cancel button, sent with every prompt of the dialogue, is pressed.
handle_cancel_add ==
  /\ last.op = "dialogue"
  /\ last.started > 0
  /\ last' = Chat("none", NoData, last.events, last.started, last.keyboard,
                  "cancel", TRUE)
  /\ DialogueStays

DialogueNext ==
  \/ handle_add_event
  \/ \E k \in 1..Len(DataKeys) : process_step(k)
  \/ handle_add_category
  \/ handle_cancel_add

SpecDialogue == DialogueInit /\ [][DialogueNext]_vars

\* The first five steps: the state moves on a valid text only, and then to
\* the next step with the text stored under the key of the step; an invalid
\* text leaves state and data as they were.
StepsInOrder ==
  [][\A k \in 1..Len(DataKeys) :
       last'.handler = DataKeys[k] =>
         /\ last.state = AddEvent[k]
         /\ last'.events = last.events
         /\ IF last'.ok
            THEN /\ last'.state = AddEvent[k + 1]
                 /\ last'.data = [last.data EXCEPT ![k] = last.started]
            ELSE /\ last'.state = last.state
                 /\ last'.data = last.data]_vars

\* Cancel clears state and data and adds nothing.
CancelClears ==
  [][last'.handler = "cancel" =>
       /\ last'.state = "none"
       /\ last'.data = NoData
       /\ last'.events = last.events]_vars

\* C38: the state advances on valid input only and in the order of the
\* steps, invalid input changes nothing, cancel clears the state and adds
\* nothing, and an event is added only by the category step, that is from
\* the state waiting_for_category, with all five fields stored.
C38_DialogueInOrder ==
  /\ StepsInOrder
  /\ CancelClears
  /\ [][last'.events # last.events =>
          /\ last'.handler = "category"
          /\ last.state = AddEvent[Len(AddEvent)]
          /\ \A k \in 1..Len(DataKeys) : last.data[k] # 0]_vars

\* What holds of the category handler: it alone adds events, and only with
\* all five fields stored.
C38_AddedWithAllFields ==
  /\ StepsInOrder
  /\ CancelClears
  /\ [][last'.events # last.events =>
          /\ last'.handler = "category"
          /\ \A k \in 1..Len(DataKeys) : last.data[k] # 0]_vars

\* An event was added while the dialogue waited for the date: its title is
\* of the second dialogue, its other fields are left from the first.
C38_Witness ==
  /\ last.op = "dialogue"
  /\ last.handler = "category"
  /\ Len(last.events) = 1
  /\ last.events[1].state = "waiting_for_date"
  /\ last.events[1].data = <<2, 1, 1, 1, 1>>

(* -------------------------- the events manager -------------------------- *)
\* all_categories of load_events_from_file, the keys of the store.
all_categories ==
  <<"education", "careers", "competitions", "exhibitions", "culture",
    "volunteering", "student_life">>

\* An id as stored: the number int() reads from it and whether the string is
\* the one str() gives for that number ("7") or another spelling ("07").
Id(n, canonical) == [n |-> n, canonical |-> canonical]

NoEvents == [c \in 1..Len(all_categories) |-> <<>>]

\* EventsManager after a call: the lists of ids of self.events by category,
\* self.event_counter and the method that ran.
Manager(events, event_counter, method) ==
  [op |-> "manager", events |-> events, event_counter |-> event_counter,
   method |-> method, failed_at |-> 0]

\* Saved files: no event; events with the ids add_event gave them; events
\* edited by hand whose ids are out of order, spelled with a leading zero
\* and spread over categories. The ids of a file are distinct numbers.
SavedFiles ==
  { NoEvents,
    [NoEvents EXCEPT ![1] = <<Id(7, TRUE), Id(8, TRUE)>>],
    [NoEvents EXCEPT ![1] = <<Id(9, FALSE)>>, ![5] = <<Id(2, TRUE)>>],
    [NoEvents EXCEPT ![2] = <<Id(3, TRUE), Id(1, TRUE)>>,
                     ![7] = <<Id(10, TRUE)>>] }

\* The categories, in file order, of the events read from the JSONL files of
\* parsed_events.
ParsedFiles ==
  { <<>>, <<1>>, <<5, 1>>, <<1, 2, 1>> }

\* The ids of the store, with repetitions.
RECURSIVE AllIds(_, _)
AllIds(events, c) ==
  IF c > Len(all_categories) THEN <<>>
  ELSE events[c] \o AllIds(events, c + 1)

RECURSIVE MaxOf(_, _)
MaxOf(ids, max_id) ==
  IF ids = <<>> THEN max_id
  ELSE MaxOf(Tail(ids), IF Head(ids).n > max_id THEN Head(ids).n ELSE max_id)

\* A load that replaces the events and leaves the counter as it was.
load_saved_keeps_counter(m, loaded) == Manager(loaded, m.event_counter, "load")

\* load_events_from_file when events.json exists: the events are replaced by
\* the file's, every category gets a list, and the counter becomes the
\* greatest id plus one.
load_saved(m, loaded) ==
  Manager(loaded, MaxOf(AllIds(loaded, 1), 0) + 1, "load")

\* initialize_default_events: one sample event with id "1".
initialize_default_events ==
  Manager([NoEvents EXCEPT ![1] = <<Id(1, TRUE)>>], 2, "load")

\* The loop of _load_from_parsed_events over the events read: each is
\* appended to its category with the next id, counted from 1.
RECURSIVE append_parsed(_, _, _)
append_parsed(events, categories, event_id_counter) ==
  IF categories = <<>>
  THEN [events |-> events, event_id_counter |-> event_id_counter]
  ELSE append_parsed([events EXCEPT ![Head(categories)] =
                        Append(@, Id(event_id_counter, TRUE))],
                     Tail(categories), event_id_counter + 1)

\* _load_from_parsed_events, taken when events.json is missing or cannot be
\* loaded: the store is emptied and filled from the JSONL files; with
\* nothing read the default events are used.
load_from_parsed_events(parsed) ==
  LET r == append_parsed(NoEvents, parsed, 1)
  IN  IF AllIds(r.events, 1) = <<>> THEN initialize_default_events
      ELSE Manager(r.events, r.event_id_counter, "load")

\* add_event: the new event gets str(self.event_counter) and the counter
\* advances.
add_event(m, category) ==
  Manager([m.events EXCEPT ![category] =
             Append(@, Id(m.event_counter, TRUE))],
          m.event_counter + 1, "add")

\* EventsManager(): no events, event_counter = 7.
ManagerInit ==
  /\ NoRun
  /\ seen_messages = {}
  /\ ext = ExtractorInit(USE_LLM)
  /\ files = [c \in ChannelNames |-> <<>>]
  /\ cfg = [max_retries |-> PARSER_MAX_RETRIES,
            retry_delay |-> PARSER_RETRY_DELAY]
  /\ calls = 0
  /\ last = Manager(NoEvents, 7, "init")
  /\ fetch = NoFetch

LoadEvents ==
  /\ calls < MaxManagerCalls
  /\ \/ \E loaded \in SavedFiles : last' = load_saved(last, loaded)
     \/ \E parsed \in ParsedFiles : last' = load_from_parsed_events(parsed)
  /\ calls' = calls + 1
  /\ UNCHANGED <<channels, pc, attempt, result, outcome, sem, seen_messages,
                 ext, files, statistics, mainpc, cfg, fetch>>

AddEventCall ==
  /\ calls < MaxManagerCalls
  /\ \E category \in {1, 5} : last' = add_event(last, category)
  /\ calls' = calls + 1
  /\ UNCHANGED <<channels, pc, attempt, result, outcome, sem, seen_messages,
                 ext, files, statistics, mainpc, cfg, fetch>>

ManagerNext ==
  \/ LoadEvents
  \/ AddEventCall

SpecManager == ManagerInit /\ [][ManagerNext]_vars

\* C39: after any sequence of loads and add_event calls no two events of
\* the store, in one category or in two, have the same id, as strings or as
\* numbers, and the id add_event assigns is greater than every id present.
C39_IdsAreUnique ==
  /\ [](\A i, j \in 1..Len(AllIds(last.events, 1)) :
          AllIds(last.events, 1)[i].n = AllIds(last.events, 1)[j].n => i = j)
  /\ [][last'.method = "add" /\ calls' # calls =>
          \A i \in 1..Len(AllIds(last.events, 1)) :
            AllIds(last.events, 1)[i].n < last.event_counter]_vars

\* After a load of a file whose greatest id stands first and is spelled
\* with a leading zero, events were added to two categories with the next
\* ids.
C39_Witness ==
  /\ last.method = "add"
  /\ last.events[1] = <<Id(9, FALSE), Id(11, TRUE)>>
  /\ last.events[5] = <<Id(2, TRUE), Id(10, TRUE)>>
====
